---- MODULE Spec2Model ----
(***************************************************************************)
(* Model of the screen-memory store of src/src/main.ts (the multi-entry,   *)
(* importance-scored variant, lines 1-452): addToMemory, its duplicate     *)
(* filter (calculateSimilarity), assessContentImportance,                  *)
(* consolidateMemory, the debug IPC handlers and the readers of the        *)
(* store; and of the streaming chat of the modular build: the chat-gemini  *)
(* handler of IPCManager and MemoryManager (src/unnamed/part_009),         *)
(* APIServer.chatWithGemini (src/src/server/api.ts) and the renderer's     *)
(* handleSubmit and gemini-stream listener (src/unnamed/part_003).         *)
(*                                                                         *)
(* A text is a sequence of one-character strings, so that toLowerCase,     *)
(* split(/\s+/), trim and parseInt are computed character by character.    *)
(* An await on a collaborator (geminiModel.generateContent) is a           *)
(* suspension point: the handler is split there into two actions, and      *)
(* everything between two suspension points is one atomic action, as on    *)
(* the single-threaded event loop.                                         *)
(***************************************************************************)
EXTENDS Integers, Sequences, FiniteSets, TLC

VARIABLES
    memoryEntries,     \* let memoryEntries: MemoryEntry[]
    maxMemoryEntries,  \* the capacity of this run (the build's MAX_MEMORY_ENTRIES)
    geminiModel,       \* TRUE when GEMINI_API_KEY gave a model, FALSE for null
    now,               \* the last value Date.now() returned
    calls,             \* the suspended calls of addToMemory / consolidateMemory
    last,              \* the handler step taken last, with what it logged
    accepted,          \* entries pushed since the store was created or cleared,
                       \* counted up to one past the capacity
    currentMemory,     \* MemoryManager.currentMemory
    handlers,          \* the invocations of the chat-gemini handler of IPCManager
    events,            \* the events sent on the channel 'gemini-stream'
    delivered,         \* how many of them the renderer's listener has processed
    activeStreamRef,   \* App: activeStreamRef.current (NoStream for null)
    isLoading,         \* App: isLoading
    messages,          \* App: messages
    currentAudioTranscript, \* MemoryManager.currentAudioTranscript
    pendingAudio,      \* invocations of transcribe-audio awaiting transcribeAudio
    lastAudio,         \* the step of the audio path taken last
    isRecording,       \* useAudioRecording: isRecording
    isTranscribing,    \* useAudioRecording: isTranscribing
    closure,           \* isRecording and isTranscribing as the callback handed
                       \* to setInterval sees them
    recordingIntervalRef, \* useAudioRecording: the interval is set
    recorder,          \* MediaRecorder.state of the session started last
    memoryInterval,    \* let memoryInterval: the capture timer is armed
    tickFailed,        \* a capture tick has failed since the timer was armed
    timers,            \* intervals created by setInterval and not cleared since
    similarity,        \* what calculateSimilarity returned last
    isVisible,         \* WindowManager.isVisible
    ignoreMouseEvents, \* WindowManager.ignoreMouseEvents
    windowIgnoresMouse, \* what mainWindow.setIgnoreMouseEvents was called with last
    isCollapsed,       \* WindowManager.isCollapsed
    windowHeight,      \* the height mainWindow.setSize was called with last
    isExpanded,        \* App: isExpanded
    resizeRequests,    \* 'resize-window' invocations the main process has not run yet
    collapseEvents     \* 'toggle-collapse' messages the renderer has not received yet

\* The state of the modular build's chat.
chatVars ==
    <<currentMemory, handlers, events, delivered, activeStreamRef, isLoading,
      messages>>

\* The state of the store of main.ts.
storeVars == <<memoryEntries, maxMemoryEntries, calls, last, accepted>>

\* The audio path: the transcript slot of MemoryManager, the transcribe-audio
\* handler and the renderer's useAudioRecording hook.
audioVars ==
    <<currentAudioTranscript, pendingAudio, lastAudio, isRecording,
      isTranscribing, closure, recordingIntervalRef, recorder>>

\* The capture timer of startMemoryCapture.
timerVars == <<memoryInterval, tickFailed, timers>>

\* The window of WindowManager and the renderer's view of it.
windowVars ==
    <<isVisible, ignoreMouseEvents, windowIgnoresMouse, isCollapsed, windowHeight,
      isExpanded, resizeRequests, collapseEvents>>

sideVars == <<audioVars, timerVars, similarity, windowVars>>

vars ==
    <<memoryEntries, maxMemoryEntries, geminiModel, now, calls, last, accepted,
      currentMemory, handlers, events, delivered, activeStreamRef, isLoading,
      messages, currentAudioTranscript, pendingAudio, lastAudio, isRecording,
      isTranscribing, closure, recordingIntervalRef, recorder, memoryInterval,
      tickFailed, timers, similarity, isVisible, ignoreMouseEvents,
      windowIgnoresMouse, isCollapsed, windowHeight, isExpanded, resizeRequests,
      collapseEvents>>

(***************************************************************************)
(* Program constants.                                                      *)
(***************************************************************************)
\* memoryEntries.slice(-5): the window of the duplicate filter.
RECENT_WINDOW == 5
\* calculateSimilarity(...) > 0.8, kept exact as the fraction 4/5.
SIMILARITY_NUM == 4
SIMILARITY_DEN == 5
\* assessContentImportance: the default and the clamp Math.max(1, Math.min(10, n)).
DEFAULT_IMPORTANCE == 5
MIN_IMPORTANCE == 1
MAX_IMPORTANCE == 10
\* consolidateMemory: importance of the consolidated entry.
CONSOLIDATED_IMPORTANCE == 8
\* const MAX_MEMORY_ENTRIES = 50
MAX_MEMORY_ENTRIES == 50
\* WindowManager and App: the heights of the collapsed and the expanded window.
HEADER_HEIGHT == 30
EXPANDED_HEIGHT == 600
\* getMemoryContext: entry.importance >= 6 || entry.timestamp > Date.now() - 300000,
\* then slice(-10).
HIGH_IMPORTANCE == 6
CONTEXT_WINDOW_MS == 300000
CONTEXT_LIMIT == 10
\* get-memory-entries: memoryEntries.slice(-20).
RAW_LIMIT == 20
\* toLocaleTimeString renders the time of day, to the second.
MS_PER_SECOND == 1000
MS_PER_DAY == 86400000

(***************************************************************************)
(* Bounds of the model.                                                    *)
(***************************************************************************)
\* The capacity the store is run with where it has to fill up and overflow
\* within the model (MAX_MEMORY_ENTRIES is 50 in the source).
ScaledMaxEntries == 2
\* Date.now() is read as a value between the last reading and MaxTime.
MaxTime == 1
\* Calls of addToMemory / consolidateMemory that may be suspended at once.
MaxInFlight == 2
\* Chat queries submitted in a run.
MaxQueries == 2
\* Chunks a generation stream yields before it ends or fails.
MaxChunks == 2
\* Invocations of transcribe-audio that may be awaiting their transcript at once.
MaxPendingAudio == 2
\* Messages in flight between the renderer and the main process, each way.
MaxIpc == 2

(***************************************************************************)
(* Characters.                                                             *)
(***************************************************************************)
UpperCase == <<"A","B","C","D","E","F","G","H","I","J","K","L","M",
               "N","O","P","Q","R","S","T","U","V","W","X","Y","Z">>
LowerCase == <<"a","b","c","d","e","f","g","h","i","j","k","l","m",
               "n","o","p","q","r","s","t","u","v","w","x","y","z">>
Digits == <<"0","1","2","3","4","5","6","7","8","9">>

\* The characters the regular expression class \s matches, among those used.
IsSpace(c) == c \in {" ", "\t", "\n"}

IsDigit(c) == \E i \in 1..Len(Digits) : Digits[i] = c

DigitValue(c) == (CHOOSE i \in 1..Len(Digits) : Digits[i] = c) - 1

\* String.prototype.toLowerCase, one character.
ToLowerChar(c) ==
    IF \E i \in 1..Len(UpperCase) : UpperCase[i] = c
    THEN LowerCase[CHOOSE i \in 1..Len(UpperCase) : UpperCase[i] = c]
    ELSE c

\* String.prototype.toLowerCase.
ToLowerCase(s) == [i \in 1..Len(s) |-> ToLowerChar(s[i])]

RECURSIVE TrimStart(_)
TrimStart(s) ==
    IF s # <<>> /\ IsSpace(Head(s)) THEN TrimStart(Tail(s)) ELSE s

RECURSIVE TrimEnd(_)
TrimEnd(s) ==
    IF s # <<>> /\ IsSpace(s[Len(s)]) THEN TrimEnd(SubSeq(s, 1, Len(s) - 1)) ELSE s

\* String.prototype.trim.
Trim(s) == TrimEnd(TrimStart(s))

(***************************************************************************)
(* split(/\s+/): the pieces between maximal runs of whitespace.  A leading *)
(* or trailing run yields an empty piece, and the empty text yields one    *)
(* empty piece, as in JavaScript.                                          *)
(***************************************************************************)
RECURSIVE SplitFrom(_, _, _)
SplitFrom(s, i, cur) ==
    IF i > Len(s) THEN <<cur>>
    ELSE IF IsSpace(s[i])
         THEN IF i > 1 /\ IsSpace(s[i - 1])
              THEN SplitFrom(s, i + 1, cur)
              ELSE <<cur>> \o SplitFrom(s, i + 1, <<>>)
         ELSE SplitFrom(s, i + 1, Append(cur, s[i]))

SplitWhitespace(s) == SplitFrom(s, 1, <<>>)

\* new Set(text.toLowerCase().split(/\s+/))
WordSet(text) ==
    LET pieces == SplitWhitespace(ToLowerCase(text))
    IN  {pieces[i] : i \in 1..Len(pieces)}

\* calculateSimilarity: intersection.size / union.size, as the pair of sizes.
IntersectionSize(text1, text2) == Cardinality(WordSet(text1) \cap WordSet(text2))

UnionSize(text1, text2) == Cardinality(WordSet(text1) \cup WordSet(text2))

\* Mutant: the intersection divided by the size of the first set.
calculateSimilarityOverFirst(text1, text2) ==
    [num |-> IntersectionSize(text1, text2), den |-> Cardinality(WordSet(text1))]

calculateSimilarity(text1, text2) ==
    [num |-> IntersectionSize(text1, text2), den |-> UnionSize(text1, text2)]

\* Mutant: the comparison as >= 0.8.
ExceedsThresholdOrEqual(sim) == sim.num * SIMILARITY_DEN >= SIMILARITY_NUM * sim.den

\* calculateSimilarity(entry.content, content) > 0.8
ExceedsThreshold(sim) == sim.num * SIMILARITY_DEN > SIMILARITY_NUM * sim.den

(***************************************************************************)
(* parseInt(s): optional leading whitespace, an optional sign, then the    *)
(* longest run of decimal digits; NaN when there is no digit there.        *)
(***************************************************************************)
RECURSIVE DigitsValue(_, _)
DigitsValue(s, acc) ==
    IF s # <<>> /\ IsDigit(Head(s))
    THEN DigitsValue(Tail(s), 10 * acc + DigitValue(Head(s)))
    ELSE acc

parseInt(text) ==
    LET s == TrimStart(text)
        signed == s # <<>> /\ Head(s) \in {"-", "+"}
        body == IF signed THEN Tail(s) ELSE s
        magnitude == DigitsValue(body, 0)
    IN  IF body = <<>> \/ ~IsDigit(Head(body))
        THEN [nan |-> TRUE, value |-> 0]
        ELSE [nan |-> FALSE,
              value |-> IF s # <<>> /\ Head(s) = "-" THEN 0 - magnitude ELSE magnitude]

Min(a, b) == IF a < b THEN a ELSE b
Max(a, b) == IF a > b THEN a ELSE b

\* Mutant: the parsed number used without the clamp.
ClampImportanceUnclamped(p) == IF p.nan THEN DEFAULT_IMPORTANCE ELSE p.value

\* Mutant: the isNaN test left out (NaN passes through Math.min and Math.max
\* of a strict-integer port as the lower limit).
ClampImportanceNoDefault(p) ==
    Max(MIN_IMPORTANCE, Min(MAX_IMPORTANCE, IF p.nan THEN 0 ELSE p.value))

\* isNaN(importance) ? 5 : Math.max(1, Math.min(10, importance))
ClampImportance(p) ==
    IF p.nan THEN DEFAULT_IMPORTANCE
    ELSE Max(MIN_IMPORTANCE, Min(MAX_IMPORTANCE, p.value))

\* A collaborator call either resolves with a text or rejects.
Resolved(text) == [ok |-> TRUE, text |-> text]
Rejected == [ok |-> FALSE, text |-> <<>>]

\* assessContentImportance after its await: the response is trimmed and parsed;
\* a rejection is caught and yields the default.
ImportanceOf(outcome) ==
    IF outcome.ok THEN ClampImportance(parseInt(Trim(outcome.text)))
    ELSE DEFAULT_IMPORTANCE

(***************************************************************************)
(* Memory entries and the pure parts of addToMemory and consolidateMemory. *)
(***************************************************************************)
MemoryEntry(timestamp, content, importance) ==
    [timestamp |-> timestamp, content |-> content, importance |-> importance]

\* Array.prototype.slice(-n)
LastN(seq, n) == SubSeq(seq, Max(1, Len(seq) - n + 1), Len(seq))

\* Array.prototype.slice(0, n)
FirstN(seq, n) == SubSeq(seq, 1, Min(n, Len(seq)))

\* Mutant: a window one entry short.
RecentEntriesShort(entries) == LastN(entries, RECENT_WINDOW - 1)

\* const recentEntries = memoryEntries.slice(-5)
RecentEntries(entries) == LastN(entries, RECENT_WINDOW)

\* recentEntries.some(entry => calculateSimilarity(entry.content, content) > 0.8)
IsDuplicate(entries, content) ==
    LET recentEntries == RecentEntries(entries)
    IN  \E i \in 1..Len(recentEntries) :
            ExceedsThreshold(calculateSimilarity(recentEntries[i].content, content))

\* The comparator (a, b) => b.importance - a.importance || b.timestamp - a.timestamp
\* is negative, that is a sorts before b.
SortsBefore(a, b) ==
    \/ a.importance > b.importance
    \/ a.importance = b.importance /\ a.timestamp > b.timestamp

\* Array.prototype.sort is stable: x is placed before the first element it sorts
\* before, and after every element it ties with.
RECURSIVE InsertSorted(_, _)
InsertSorted(sorted, x) ==
    IF sorted = <<>> THEN <<x>>
    ELSE IF SortsBefore(x, Head(sorted)) THEN <<x>> \o sorted
    ELSE <<Head(sorted)>> \o InsertSorted(Tail(sorted), x)

RECURSIVE SortEntries(_)
SortEntries(entries) ==
    IF entries = <<>> THEN <<>>
    ELSE InsertSorted(SortEntries(SubSeq(entries, 1, Len(entries) - 1)),
                      entries[Len(entries)])

\* Mutant: the sort without the slice.
SimpleConsolidationUnsliced(entries) == SortEntries(entries)

\* consolidateMemory without a model: sort, slice(0, MAX_MEMORY_ENTRIES).
SimpleConsolidation(entries) == FirstN(SortEntries(entries), maxMemoryEntries)

\* Mutant: the retained entries rewritten with the default importance.
FallbackConsolidationRescored(entries) ==
    LET kept == FirstN(SortEntries(entries), maxMemoryEntries \div 2)
    IN  [i \in 1..Len(kept) |->
            [timestamp |-> kept[i].timestamp, content |-> kept[i].content,
             importance |-> DEFAULT_IMPORTANCE]]

\* consolidateMemory after a failed call: sort, slice(0, floor(MAX_MEMORY_ENTRIES / 2)).
FallbackConsolidation(entries) ==
    FirstN(SortEntries(entries), maxMemoryEntries \div 2)

\* Mutant: the summary stored with the default importance.
AIConsolidationNeutral(summary, timestamp) ==
    <<MemoryEntry(timestamp, summary, DEFAULT_IMPORTANCE)>>

\* consolidateMemory after a successful call: one entry holding the summary.
AIConsolidation(summary, timestamp) ==
    <<MemoryEntry(timestamp, summary, CONSOLIDATED_IMPORTANCE)>>

\* getMemoryContext: the entries it renders, filter(...).slice(-10).
ContextEntries(entries, dateNow) ==
    LET Kept(entry) == \/ entry.importance >= HIGH_IMPORTANCE
                       \/ entry.timestamp > dateNow - CONTEXT_WINDOW_MS
    IN  LastN(SelectSeq(entries, Kept), CONTEXT_LIMIT)

\* `[${new Date(entry.timestamp).toLocaleTimeString()}] ${entry.content}`: a
\* line carries the time of day of the entry, to the second, and its content.
ContextLine(entry) ==
    [time |-> (entry.timestamp % MS_PER_DAY) \div MS_PER_SECOND,
     content |-> entry.content]

\* getMemoryContext(): the lines below the heading 'Recent screen context:';
\* the empty string, returned for an empty store and when no entry passes the
\* filter, is the empty sequence of lines.
getMemoryContext(entries, dateNow) ==
    IF Len(entries) = 0 THEN <<>>
    ELSE LET recentEntries == ContextEntries(entries, dateNow)
         IN  [i \in 1..Len(recentEntries) |-> ContextLine(recentEntries[i])]

\* get-memory-entries: memoryEntries.slice(-20)
getRawEntries(entries) == LastN(entries, RAW_LIMIT)

(***************************************************************************)
(* Inputs: the texts a capture tick hands to addToMemory (already trimmed  *)
(* and non-empty, main.ts:243-244), and what the collaborator answers.     *)
(***************************************************************************)
TextA == <<"a">>
TextB == <<"b">>
TextC == <<"c">>
TextD == <<"d">>
TextE == <<"e">>
TextSummary == <<"s","u","m">>
\* "login error" and "login error occurred": similarity 2/3.
TextLoginError == <<"l","o","g","i","n"," ","e","r","r","o","r">>
TextLoginErrorOccurred ==
    <<"l","o","g","i","n"," ","e","r","r","o","r"," ",
      "o","c","c","u","r","r","e","d">>
\* Five words, and texts at similarity 4/5, 5/6 and 1 to them.
TextFive == <<"v"," ","w"," ","x"," ","y"," ","z">>
TextFour == <<"v"," ","w"," ","x"," ","y">>
TextSix == <<"v"," ","w"," ","x"," ","y"," ","z"," ","u">>
TextFiveUpper == <<"V"," ","W"," ","X"," ","Y"," ","Z">>
TextFiveSpaced == <<"z","\t","y"," "," ","x","\n","w"," ","v">>

\* Pairwise dissimilar observations: enough of them to overflow the store.
Observations == {TextA, TextB, TextC, TextD}

FewObservations == {TextA, TextB, TextC}

TwoObservations == {TextA, TextB}

DedupObservations ==
    {TextA, TextLoginError, TextLoginErrorOccurred,
     TextFive, TextFour, TextSix, TextFiveUpper, TextFiveSpaced}

\* What the OCR of a capture tick returns: nothing, whitespace only, a text
\* wrapped in whitespace, a text.
TextEmpty == <<>>
TextBlank == <<" ", "\n">>
TextPadded == <<" ", "a", "\n">>

RawTexts == {TextEmpty, TextBlank, TextPadded, TextB}

\* The contents addToMemory is called with directly.
DirectContents == {TextEmpty, TextBlank, TextA}

\* Responses to the importance prompt: a rating, a rating wrapped in whitespace
\* and followed by text, a negative number, zero, a number above 10, text that
\* is not a number, and the empty text.
ResponseSeven == <<"7">>
ResponseNinePadded == <<" ","9","/","1","0","\n">>
ResponseNegative == <<"-","3">>
ResponseZero == <<"0">>
ResponseFifteen == <<"1","5">>
ResponseWords == <<"h","i","g","h">>
ResponseEmpty == <<>>

AssessOutcomes == {Resolved(ResponseSeven), Rejected}

ManyAssessOutcomes ==
    {Resolved(ResponseNinePadded), Resolved(ResponseNegative), Resolved(ResponseZero),
     Resolved(ResponseFifteen), Resolved(ResponseWords), Resolved(ResponseEmpty),
     Rejected}

\* An answer that puts a label before the rating.
ResponseLabelled == <<"R","a","t","i","n","g",":"," ","7">>

LabelledAssessOutcomes == ManyAssessOutcomes \cup {Resolved(ResponseLabelled)}

ConsolidateOutcomes == {Resolved(TextSummary), Rejected}

(***************************************************************************)
(* State.                                                                  *)
(***************************************************************************)
Slots == 1..MaxInFlight

IdleCall == [pc |-> "idle", kind |-> "none", content |-> <<>>, prompt |-> <<>>]

\* A call suspended in assessContentImportance (await generateContent).
AssessCall(content) ==
    [pc |-> "assess", kind |-> "addToMemory", content |-> content, prompt |-> <<>>]

\* A call suspended in consolidateMemory (await generateContent); the prompt
\* was built from the entries the store held when the call was made.
ConsolidateCall(kind, content, entries) ==
    [pc |-> "consolidate", kind |-> kind, content |-> content, prompt |-> entries]

InFlight == {s \in Slots : calls[s].pc # "idle"}

\* The slot a new call takes: the lowest idle one.
IsFreeSlot(s) ==
    /\ calls[s].pc = "idle"
    /\ \A r \in Slots : r < s => calls[r].pc # "idle"

\* What the step taken last was: the handler, the content it was given, what
\* the collaborator answered, what the handler logged, and the size of the
\* store it left (for a reader: the size of the store it read).
Step(op, content, reply, text, result, size) ==
    [op |-> op, content |-> content, reply |-> reply, text |-> text,
     result |-> result, size |-> size]

ReplyOf(outcome) == IF outcome.ok THEN "resolved" ELSE "rejected"

\* Date.now(): not before the value it returned last.
Clock == now..MaxTime

\* useRef<string | null>(null): no active stream.  Stream ids are the decimal
\* strings of positive times, kept as the numbers they spell.
NoStream == 0

\* The chat of the modular build before its first query.
InitChat ==
    /\ currentMemory = <<>>
    /\ handlers = <<>>
    /\ events = <<>>
    /\ delivered = 0
    /\ activeStreamRef = NoStream
    /\ isLoading = FALSE
    /\ messages = <<>>

\* What the step of the audio path taken last was, and the transcript it was
\* about.
AudioStep(op, reply, text) == [op |-> op, reply |-> reply, text |-> text]

\* The audio path and the capture timer before anything has run: the slot is
\* '', useState(false) twice, no interval set, no MediaRecorder.
\* The window as createWindow and loadApp leave it when the program is
\* started without --ignore-mouse-events (part_012:13), and App as mounted.
InitWindow ==
    /\ isVisible = TRUE
    /\ ignoreMouseEvents = FALSE
    /\ windowIgnoresMouse = FALSE
    /\ isCollapsed = FALSE
    /\ windowHeight = EXPANDED_HEIGHT
    /\ isExpanded = TRUE
    /\ resizeRequests = <<>>
    /\ collapseEvents = 0

InitSide ==
    /\ currentAudioTranscript = <<>>
    /\ pendingAudio = 0
    /\ lastAudio = AudioStep("start", "none", <<>>)
    /\ isRecording = FALSE
    /\ isTranscribing = FALSE
    /\ closure = [isRecording |-> FALSE, isTranscribing |-> FALSE]
    /\ recordingIntervalRef = FALSE
    /\ recorder = "none"
    /\ memoryInterval = FALSE
    /\ tickFailed = FALSE
    /\ timers = 0
    /\ InitWindow
    /\ similarity = [num |-> 0, den |-> 1]

\* The store holding the given entries, no call suspended, the clock at t.
InitAt(entries, cap, t) ==
    /\ memoryEntries = entries
    /\ maxMemoryEntries = cap
    /\ geminiModel \in BOOLEAN
    /\ now = t
    /\ calls = [s \in Slots |-> IdleCall]
    /\ last = Step("start", <<>>, "none", <<>>, "none", Len(entries))
    /\ accepted = Min(Len(entries), cap + 1)
    /\ InitChat
    /\ InitSide

InitWith(entries, cap) == InitAt(entries, cap, 0)

Init == InitWith(<<>>, ScaledMaxEntries)

(***************************************************************************)
(* addToMemory(content), up to its first suspension point.                 *)
(***************************************************************************)
\* if (isDuplicate) { logMemory('Skipping duplicate content'); return; }
AddDuplicate(content) ==
    /\ IsDuplicate(memoryEntries, content)
    /\ last' = Step("addToMemory", content, "none", <<>>, "duplicate",
                    Len(memoryEntries))
    /\ UNCHANGED <<memoryEntries, maxMemoryEntries, geminiModel, now, calls, accepted>>
    /\ UNCHANGED <<chatVars, sideVars>>

\* geminiModel is null: assessContentImportance returns 5 and consolidateMemory
\* sorts and slices, both without a collaborator call, so the call runs to its
\* end within the turn of the event loop that started it.
AddWithoutModel(content, t) ==
    /\ ~IsDuplicate(memoryEntries, content)
    /\ ~geminiModel
    /\ LET pushed == Append(memoryEntries,
                            MemoryEntry(t, content, DEFAULT_IMPORTANCE))
           over == Len(pushed) > maxMemoryEntries
       IN  /\ memoryEntries' = IF over THEN SimpleConsolidation(pushed) ELSE pushed
           /\ last' = Step("addToMemory", content, "none", <<>>,
                           IF over THEN "added-simple" ELSE "added",
                           Len(memoryEntries'))
    /\ now' = t
    /\ accepted' = Min(accepted + 1, maxMemoryEntries + 1)
    /\ UNCHANGED <<maxMemoryEntries, geminiModel, calls>>
    /\ UNCHANGED <<chatVars, sideVars>>

\* const importance = await assessContentImportance(content), with a model.
AddAwaitAssess(s, content) ==
    /\ ~IsDuplicate(memoryEntries, content)
    /\ geminiModel
    /\ IsFreeSlot(s)
    /\ calls' = [calls EXCEPT ![s] = AssessCall(content)]
    /\ last' = Step("addToMemory", content, "none", <<>>, "assessing",
                    Len(memoryEntries))
    /\ UNCHANGED <<memoryEntries, maxMemoryEntries, geminiModel, now, accepted>>
    /\ UNCHANGED <<chatVars, sideVars>>

addToMemory(s, content, t) ==
    \/ AddDuplicate(content)
    \/ AddWithoutModel(content, t)
    \/ AddAwaitAssess(s, content)

(***************************************************************************)
(* The capture tick once the OCR has returned its text:                    *)
(* if (text.trim()) { await addToMemory(text.trim()); ... }                *)
(***************************************************************************)
CaptureTick(s, text, t) ==
    IF Trim(text) = <<>>
    THEN /\ last' = Step("capture-tick", text, "none", <<>>, "skipped",
                         Len(memoryEntries))
         /\ UNCHANGED <<memoryEntries, maxMemoryEntries, geminiModel, now, calls,
                        accepted>>
         /\ UNCHANGED <<chatVars, sideVars>>
    ELSE addToMemory(s, Trim(text), t)

(***************************************************************************)
(* addToMemory resumed with the collaborator's answer: the entry is pushed *)
(* and, over the capacity, consolidateMemory is called and suspends.       *)
(***************************************************************************)
AssessReturn(s, outcome, t) ==
    /\ calls[s].pc = "assess"
    /\ LET entry == MemoryEntry(t, calls[s].content, ImportanceOf(outcome))
           pushed == Append(memoryEntries, entry)
           over == Len(pushed) > maxMemoryEntries
       IN  /\ memoryEntries' = pushed
           /\ calls' = [calls EXCEPT ![s] =
                           IF over
                           THEN ConsolidateCall("addToMemory", calls[s].content, pushed)
                           ELSE IdleCall]
           /\ last' = Step("assessContentImportance", calls[s].content,
                           ReplyOf(outcome), outcome.text,
                           IF over THEN "added-consolidating" ELSE "added",
                           Len(pushed))
    /\ now' = t
    /\ accepted' = Min(accepted + 1, maxMemoryEntries + 1)
    /\ UNCHANGED <<maxMemoryEntries, geminiModel>>
    /\ UNCHANGED <<chatVars, sideVars>>

(***************************************************************************)
(* consolidateMemory resumed: the summary replaces the entries, or the     *)
(* catch block sorts and truncates them.                                   *)
(***************************************************************************)
\* Mutant: the summary pushed onto the entries instead of replacing them.
ConsolidateResolvedPushed(s, summary, t) ==
    /\ calls[s].pc = "consolidate"
    /\ memoryEntries' = memoryEntries \o AIConsolidation(summary, t)
    /\ now' = t
    /\ calls' = [calls EXCEPT ![s] = IdleCall]
    /\ last' = Step("consolidateMemory", calls[s].content, "resolved", summary,
                    "ai", Len(memoryEntries'))
    /\ UNCHANGED <<maxMemoryEntries, geminiModel, accepted>>
    /\ UNCHANGED <<chatVars, sideVars>>

ConsolidateResolved(s, summary, t) ==
    /\ calls[s].pc = "consolidate"
    /\ memoryEntries' = AIConsolidation(summary, t)
    /\ now' = t
    /\ calls' = [calls EXCEPT ![s] = IdleCall]
    /\ last' = Step("consolidateMemory", calls[s].content, "resolved", summary,
                    "ai", Len(memoryEntries'))
    /\ UNCHANGED <<maxMemoryEntries, geminiModel, accepted>>
    /\ UNCHANGED <<chatVars, sideVars>>

\* Mutant: consolidateMemory without its catch block: the rejection leaves the
\* store as it is and is raised to the caller of addToMemory.
ConsolidateRejectedUncaught(s) ==
    /\ calls[s].pc = "consolidate"
    /\ calls' = [calls EXCEPT ![s] = IdleCall]
    /\ last' = Step("consolidateMemory", calls[s].content, "rejected", <<>>,
                    "raised", Len(memoryEntries))
    /\ UNCHANGED <<memoryEntries, maxMemoryEntries, geminiModel, now, accepted>>
    /\ UNCHANGED <<chatVars, sideVars>>

\* catch (error): the fallback consolidation; the call returns normally.
ConsolidateRejected(s) ==
    /\ calls[s].pc = "consolidate"
    /\ memoryEntries' = FallbackConsolidation(memoryEntries)
    /\ calls' = [calls EXCEPT ![s] = IdleCall]
    /\ last' = Step("consolidateMemory", calls[s].content, "rejected", <<>>,
                    "fallback", Len(memoryEntries'))
    /\ UNCHANGED <<maxMemoryEntries, geminiModel, now, accepted>>
    /\ UNCHANGED <<chatVars, sideVars>>

ConsolidateReturn(s, outcome, t) ==
    \/ outcome.ok /\ ConsolidateResolved(s, outcome.text, t)
    \/ ~outcome.ok /\ ConsolidateRejected(s)

(***************************************************************************)
(* The IPC handlers of the store.                                          *)
(***************************************************************************)
\* ipcMain.handle('consolidate-memory'), without a model.
ConsolidateNowSimple ==
    /\ ~geminiModel
    /\ memoryEntries' = SimpleConsolidation(memoryEntries)
    /\ last' = Step("consolidate-memory", <<>>, "none", <<>>, "simple",
                    Len(memoryEntries'))
    /\ UNCHANGED <<maxMemoryEntries, geminiModel, now, calls, accepted>>
    /\ UNCHANGED <<chatVars, sideVars>>

\* ipcMain.handle('consolidate-memory'), with a model: suspends in generateContent.
ConsolidateNowAwait(s) ==
    /\ geminiModel
    /\ IsFreeSlot(s)
    /\ calls' = [calls EXCEPT ![s] =
                    ConsolidateCall("consolidate-memory", <<>>, memoryEntries)]
    /\ last' = Step("consolidate-memory", <<>>, "none", <<>>, "consolidating",
                    Len(memoryEntries))
    /\ UNCHANGED <<memoryEntries, maxMemoryEntries, geminiModel, now, accepted>>
    /\ UNCHANGED <<chatVars, sideVars>>

\* Mutant: a clear that keeps the newest entry.
ClearMemoryKeepsNewest ==
    /\ memoryEntries' = LastN(memoryEntries, 1)
    /\ last' = Step("clear-memory", <<>>, "none", <<>>, "cleared", 0)
    /\ accepted' = 0
    /\ UNCHANGED <<maxMemoryEntries, geminiModel, now, calls>>
    /\ UNCHANGED <<chatVars, sideVars>>

\* ipcMain.handle('clear-memory')
ClearMemory ==
    /\ memoryEntries' = <<>>
    /\ last' = Step("clear-memory", <<>>, "none", <<>>, "cleared", 0)
    /\ accepted' = 0
    /\ UNCHANGED <<maxMemoryEntries, geminiModel, now, calls>>
    /\ UNCHANGED <<chatVars, sideVars>>

\* ipcMain.handle('get-memory-entries'): reads memoryEntries.
GetMemoryEntries ==
    /\ last' = Step("get-memory-entries", <<>>, "none", <<>>, "read",
                    Len(memoryEntries))
    /\ UNCHANGED <<memoryEntries, maxMemoryEntries, geminiModel, now, calls, accepted>>
    /\ UNCHANGED <<chatVars, sideVars>>

\* ipcMain.handle('chat-gemini'): getMemoryContext() reads memoryEntries when
\* the model is there; without it the handler returns before reading.
ChatGemini ==
    /\ geminiModel
    /\ last' = Step("chat-gemini", <<>>, "none", <<>>, "read", Len(memoryEntries))
    /\ UNCHANGED <<memoryEntries, maxMemoryEntries, geminiModel, now, calls, accepted>>
    /\ UNCHANGED <<chatVars, sideVars>>

(***************************************************************************)
(* The chat of the modular build: App.handleSubmit and its gemini-stream   *)
(* listener (part_003), the chat-gemini handler of IPCManager with         *)
(* MemoryManager.addToMemory (part_009) and APIServer.chatWithGemini       *)
(* (api.ts).  The window is taken to be open for the whole run             *)
(* (window && !window.isDestroyed()).                                      *)
(***************************************************************************)
\* What the user typed into the input field.
QueryInputs == {TextPadded, TextB}

\* What captureScreen and extractText give the handler: no capture, or a
\* capture with its text.
NoCapture == [captured |-> FALSE, text |-> <<>>]
Captured(text) == [captured |-> TRUE, text |-> text]

ScreenCaptures == {NoCapture, Captured(TextBlank), Captured(TextPadded)}

\* The last snapshot of the stream that answers the memory-update prompt.
TextMemoryPadded == <<" ", "m", "\n">>

MemoryOutcomes == {Resolved(TextMemoryPadded), Rejected}

\* chunk.text() of the chunks of a generation stream.
ChunkTexts == {<<"x">>, <<"y">>}

\* 'Error: Failed to stream response.'
ErrorStreamText ==
    <<"E","r","r","o","r",":"," ","F","a","i","l","e","d"," ","t","o"," ",
      "s","t","r","e","a","m"," ","r","e","s","p","o","n","s","e",".">>

\* '\n\nContext: ' and '\n\nAudio: '
ContextPrefix == <<"\n","\n","C","o","n","t","e","x","t",":"," ">>
AudioPrefix == <<"\n","\n","A","u","d","i","o",":"," ">>

\* MemoryManager.getMemoryContext: '' for an empty memory.
MemoryManagerContext(memory) ==
    IF memory = <<>> THEN <<>> ELSE ContextPrefix \o memory

\* MemoryManager.getAudioContext: '' for an empty transcript.
getAudioContext(transcript) ==
    IF transcript = <<>> THEN <<>> ELSE AudioPrefix \o transcript

\* What chatWithGemini builds its parts from: the screen text, whether there
\* is an image, the memory context and the audio context.  NoBundle: no
\* generation call has been made.
NoBundle ==
    [made |-> FALSE, screenText |-> <<>>, imageDataURL |-> FALSE,
     memoryContext |-> <<>>, audioContext |-> <<>>]

Bundle(screenText, imageDataURL, memoryContext, audioContext) ==
    [made |-> TRUE, screenText |-> screenText, imageDataURL |-> imageDataURL,
     memoryContext |-> memoryContext, audioContext |-> audioContext]

\* An invocation of the chat-gemini handler: where it is suspended, its stream
\* id, the screen text it handed to the memory, fullResponse, the chunks it has
\* read, how the generation failed, and what the invocation returns (the
\* handler catches every exception, so it always resolves: with fullResponse
\* or with the text `Error: ${error.message}`).
NewHandler(streamId) ==
    [pc |-> "capture", streamId |-> streamId, content |-> <<>>,
     fullResponse |-> <<>>, chunks |-> 0, failure |-> "none",
     reply |-> "pending", screenText |-> <<>>, imageDataURL |-> FALSE,
     bundle |-> NoBundle]

Queries == 1..Len(handlers)

\* window.webContents.send('gemini-stream', { streamId, text, done, error })
StreamEvent(streamId, text, done, error) ==
    [streamId |-> streamId, text |-> text, done |-> done, error |-> error]

\* Date.now() at a submit: later than its last reading, the previous query's
\* round trip through the main process lying in between.
SubmitClock == (now + 1)..(now + MaxTime)

\* App.handleSubmit up to its await of electronAPI.chatGemini.
HandleSubmit(input, t) ==
    /\ Trim(input) # <<>>
    /\ ~isLoading
    /\ Len(handlers) < MaxQueries
    /\ now' = t
    /\ activeStreamRef' = t + 1
    /\ messages' = messages \o
           <<[id |-> t, role |-> "user", content |-> Trim(input)],
             [id |-> t + 1, role |-> "assistant", content |-> <<>>]>>
    /\ isLoading' = TRUE
    /\ handlers' = Append(handlers, NewHandler(t + 1))
    /\ UNCHANGED <<geminiModel, currentMemory, events, delivered>>
    /\ UNCHANGED <<storeVars, sideVars>>

\* Mutant: the memory context read before addToMemory has stored the screen
\* text.
StartGenerationEarly(h, memory) ==
    IF geminiModel
    THEN [h EXCEPT !.pc = "generate",
                   !.bundle = Bundle(h.screenText, h.imageDataURL,
                                     MemoryManagerContext(currentMemory),
                                     getAudioContext(currentAudioTranscript))]
    ELSE [h EXCEPT !.pc = "returned", !.failure = "not-initialised",
                   !.reply = "error-text"]

\* The handler from getMemoryContext() to its await in
\* apiServer.chatWithGemini, memory being what addToMemory has left in
\* currentMemory: chatWithGemini builds its parts from the values read here.
\* Without a model it throws, the outer catch block returns the error text and
\* nothing is sent.
StartGeneration(h, memory) ==
    IF geminiModel
    THEN [h EXCEPT !.pc = "generate",
                   !.bundle = Bundle(h.screenText, h.imageDataURL,
                                     MemoryManagerContext(memory),
                                     getAudioContext(currentAudioTranscript))]
    ELSE [h EXCEPT !.pc = "returned", !.failure = "not-initialised",
                   !.reply = "error-text"]

\* captureScreen and extractText have returned.  A non-blank screen text is
\* handed to MemoryManager.addToMemory: it becomes the memory when the memory is
\* empty or when chatWithGemini throws for want of a model; otherwise
\* addToMemory suspends in the update call.
CaptureReturn(q, capture) ==
    /\ q \in Queries
    /\ handlers[q].pc = "capture"
    /\ LET content == IF capture.captured THEN Trim(capture.text) ELSE <<>>
           h == [handlers[q] EXCEPT !.content = content,
                                    !.screenText = capture.text,
                                    !.imageDataURL = capture.captured]
       IN  IF content = <<>>
           THEN /\ handlers' = [handlers EXCEPT ![q] =
                                    StartGeneration(h, currentMemory)]
                /\ UNCHANGED currentMemory
           ELSE IF currentMemory = <<>> \/ ~geminiModel
           THEN /\ currentMemory' = content
                /\ handlers' = [handlers EXCEPT ![q] = StartGeneration(h, content)]
           ELSE /\ handlers' = [handlers EXCEPT ![q] = [h EXCEPT !.pc = "memory"]]
                /\ UNCHANGED currentMemory
    /\ UNCHANGED <<geminiModel, now, events, delivered, activeStreamRef,
                   isLoading, messages>>
    /\ UNCHANGED <<storeVars, sideVars>>

\* MemoryManager.addToMemory resumed: the trimmed last snapshot becomes the
\* memory, or (catch) the screen text does; the handler goes on.
MemoryReturn(q, outcome) ==
    /\ q \in Queries
    /\ handlers[q].pc = "memory"
    /\ currentMemory' = IF outcome.ok THEN Trim(outcome.text)
                        ELSE handlers[q].content
    /\ handlers' = [handlers EXCEPT ![q] =
                        StartGeneration(handlers[q], currentMemory')]
    /\ UNCHANGED <<geminiModel, now, events, delivered, activeStreamRef,
                   isLoading, messages>>
    /\ UNCHANGED <<storeVars, sideVars>>

\* await this.geminiModel.generateContentStream(parts) has settled: the handler
\* starts to read the stream, or its outer catch block returns the error text.
GenerateReturn(q, ok) ==
    /\ q \in Queries
    /\ handlers[q].pc = "generate"
    /\ handlers' = [handlers EXCEPT ![q] =
           IF ok THEN [@ EXCEPT !.pc = "stream"]
           ELSE [@ EXCEPT !.pc = "returned", !.failure = "rejected",
                          !.reply = "error-text"]]
    /\ UNCHANGED <<geminiModel, now, currentMemory, events, delivered,
                   activeStreamRef, isLoading, messages>>
    /\ UNCHANGED <<storeVars, sideVars>>

\* Mutant: streamResponse yielding chunk.text() instead of the response so far.
StreamChunkDelta(q, chunk) ==
    /\ q \in Queries
    /\ handlers[q].pc = "stream"
    /\ handlers[q].chunks < MaxChunks
    /\ handlers' = [handlers EXCEPT ![q] =
           [@ EXCEPT !.fullResponse = chunk, !.chunks = @ + 1]]
    /\ events' = Append(events,
           StreamEvent(handlers[q].streamId, chunk, FALSE, FALSE))
    /\ UNCHANGED <<geminiModel, now, currentMemory, delivered, activeStreamRef,
                   isLoading, messages>>
    /\ UNCHANGED <<storeVars, sideVars>>

\* streamResponse yields fullResponse + chunk.text(); the handler sends it.
StreamChunk(q, chunk) ==
    /\ q \in Queries
    /\ handlers[q].pc = "stream"
    /\ handlers[q].chunks < MaxChunks
    /\ LET text == handlers[q].fullResponse \o chunk
       IN  /\ handlers' = [handlers EXCEPT ![q] =
                  [@ EXCEPT !.fullResponse = text, !.chunks = @ + 1]]
           /\ events' = Append(events,
                  StreamEvent(handlers[q].streamId, text, FALSE, FALSE))
    /\ UNCHANGED <<geminiModel, now, currentMemory, delivered, activeStreamRef,
                   isLoading, messages>>
    /\ UNCHANGED <<storeVars, sideVars>>

\* The stream has ended: the handler sends the last snapshot with done and
\* returns fullResponse.
StreamEnd(q) ==
    /\ q \in Queries
    /\ handlers[q].pc = "stream"
    /\ handlers' = [handlers EXCEPT ![q] =
           [@ EXCEPT !.pc = "returned", !.reply = "text"]]
    /\ events' = Append(events,
           StreamEvent(handlers[q].streamId, handlers[q].fullResponse, TRUE, FALSE))
    /\ UNCHANGED <<geminiModel, now, currentMemory, delivered, activeStreamRef,
                   isLoading, messages>>
    /\ UNCHANGED <<storeVars, sideVars>>

\* Mutant: the error event sent without leaving the loop over the stream.
StreamErrorContinues(q) ==
    /\ q \in Queries
    /\ handlers[q].pc = "stream"
    /\ handlers' = [handlers EXCEPT ![q] = [@ EXCEPT !.failure = "stream-error"]]
    /\ events' = Append(events,
           StreamEvent(handlers[q].streamId, ErrorStreamText, TRUE, TRUE))
    /\ UNCHANGED <<geminiModel, now, currentMemory, delivered, activeStreamRef,
                   isLoading, messages>>
    /\ UNCHANGED <<storeVars, sideVars>>

\* The stream has thrown: the inner catch block sends the error event and the
\* handler returns fullResponse.
StreamError(q) ==
    /\ q \in Queries
    /\ handlers[q].pc = "stream"
    /\ handlers' = [handlers EXCEPT ![q] =
           [@ EXCEPT !.pc = "returned", !.failure = "stream-error",
                     !.reply = "text"]]
    /\ events' = Append(events,
           StreamEvent(handlers[q].streamId, ErrorStreamText, TRUE, TRUE))
    /\ UNCHANGED <<geminiModel, now, currentMemory, delivered, activeStreamRef,
                   isLoading, messages>>
    /\ UNCHANGED <<storeVars, sideVars>>

\* Mutant: the listener writing the text to every assistant message of the
\* history.
DeliverToEveryAssistant ==
    /\ delivered < Len(events)
    /\ delivered' = delivered + 1
    /\ LET data == events[delivered + 1]
       IN  IF activeStreamRef = data.streamId
           THEN /\ messages' =
                      [i \in 1..Len(messages) |->
                          IF messages[i].role = "assistant"
                          THEN [messages[i] EXCEPT !.content = data.text]
                          ELSE messages[i]]
                /\ activeStreamRef' = IF data.done THEN NoStream ELSE activeStreamRef
                /\ isLoading' = IF data.done THEN FALSE ELSE isLoading
           ELSE UNCHANGED <<messages, activeStreamRef, isLoading>>
    /\ UNCHANGED <<geminiModel, now, currentMemory, handlers, events>>
    /\ UNCHANGED <<storeVars, sideVars>>

\* Mutant: the listener without the test of the stream id.
DeliverUnfiltered ==
    /\ delivered < Len(events)
    /\ delivered' = delivered + 1
    /\ LET data == events[delivered + 1]
           n == Len(messages)
       IN  /\ messages' =
                  IF n > 0 /\ messages[n].role = "assistant"
                  THEN [messages EXCEPT ![n].content = data.text]
                  ELSE messages
           /\ activeStreamRef' = IF data.done THEN NoStream ELSE activeStreamRef
           /\ isLoading' = IF data.done THEN FALSE ELSE isLoading
    /\ UNCHANGED <<geminiModel, now, currentMemory, handlers, events>>
    /\ UNCHANGED <<storeVars, sideVars>>

\* The renderer's listener gets the next event of the channel: for the active
\* stream it sets the content of the last message, if that is an assistant
\* message, and on done clears the active id and the loading flag.
Deliver ==
    /\ delivered < Len(events)
    /\ delivered' = delivered + 1
    /\ LET data == events[delivered + 1]
           n == Len(messages)
       IN  IF activeStreamRef = data.streamId
           THEN /\ messages' =
                      IF n > 0 /\ messages[n].role = "assistant"
                      THEN [messages EXCEPT ![n].content = data.text]
                      ELSE messages
                /\ activeStreamRef' = IF data.done THEN NoStream ELSE activeStreamRef
                /\ isLoading' = IF data.done THEN FALSE ELSE isLoading
           ELSE UNCHANGED <<messages, activeStreamRef, isLoading>>
    /\ UNCHANGED <<geminiModel, now, currentMemory, handlers, events>>
    /\ UNCHANGED <<storeVars, sideVars>>

\* Date.now() in the main process: not before its last reading, and possibly
\* the same millisecond.
InvokeClock == {t \in now..(now + MaxTime) : t > 0}

\* The chat-gemini handler invoked without a messageId (args.messageId is
\* optional): const streamId = messageId || Date.now().toString().
InvokeChat(t) ==
    /\ Len(handlers) < MaxQueries
    /\ now' = t
    /\ handlers' = Append(handlers, NewHandler(t))
    /\ UNCHANGED <<geminiModel, currentMemory, events, delivered, activeStreamRef,
                   isLoading, messages>>
    /\ UNCHANGED <<storeVars, sideVars>>

\* Mutant: a clear that resets the audio transcript as well.
clearMemoryAndAudio ==
    /\ currentMemory' = <<>>
    /\ currentAudioTranscript' = <<>>
    /\ last' = Step("clear-memory", <<>>, "none", <<>>, "memory-cleared", 0)
    /\ UNCHANGED <<memoryEntries, maxMemoryEntries, geminiModel, now, calls, accepted>>
    /\ UNCHANGED <<handlers, events, delivered, activeStreamRef, isLoading, messages>>
    /\ UNCHANGED <<pendingAudio, lastAudio, isRecording, isTranscribing, closure,
                   recordingIntervalRef, recorder>>
    /\ UNCHANGED <<timerVars, similarity,
                   windowVars>>

\* ipcMain.handle('clear-memory') of the modular build:
\* MemoryManager.clearMemory sets currentMemory = '' and nothing else.
clearMemory ==
    /\ currentMemory' = <<>>
    /\ last' = Step("clear-memory", <<>>, "none", <<>>, "memory-cleared", 0)
    /\ UNCHANGED <<memoryEntries, maxMemoryEntries, geminiModel, now, calls, accepted>>
    /\ UNCHANGED <<handlers, events, delivered, activeStreamRef, isLoading, messages>>
    /\ UNCHANGED sideVars

\* App.clearHistory: setMessages([]); setInput('').  The stream in progress, if
\* any, goes on, and isLoading is left as it is.
clearHistory ==
    /\ messages' = <<>>
    /\ UNCHANGED <<geminiModel, now, currentMemory, handlers, events, delivered,
                   activeStreamRef, isLoading>>
    /\ UNCHANGED <<storeVars, sideVars>>

\* The App component is mounted again (the window's page is loaded anew) while
\* the main process goes on: its state is that of useState and useRef, and the
\* effect registers the listener again.  The handlers of earlier queries keep
\* running and sending.
MountApp ==
    /\ messages' = <<>>
    /\ isLoading' = FALSE
    /\ activeStreamRef' = NoStream
    /\ UNCHANGED <<geminiModel, now, currentMemory, handlers, events, delivered>>
    /\ UNCHANGED <<storeVars, sideVars>>

\* A call of calculateSimilarity on two texts.
CompareTexts(text1, text2) ==
    /\ similarity' = calculateSimilarity(text1, text2)
    /\ last' = Step("calculateSimilarity", text1, "none", text2, "compared",
                    Len(memoryEntries))
    /\ UNCHANGED <<memoryEntries, maxMemoryEntries, geminiModel, now, calls, accepted>>
    /\ UNCHANGED <<chatVars, audioVars, timerVars, windowVars>>

(***************************************************************************)
(* The single-string memory of the second variant of main.ts: addToMemory  *)
(* replaces currentMemory by the new text without a model, and otherwise   *)
(* by the collaborator's rewriting of the old memory and the new text; its *)
(* catch block falls back to the new text.                                 *)
(***************************************************************************)
\* A call suspended in geminiModel.generateContent(prompt); the prompt quotes
\* the memory the call found.
UpdateCall(content, memory) ==
    [pc |-> "update", kind |-> "addToMemory", content |-> content, prompt |-> memory]

\* if (!geminiModel) { currentMemory = content; return; }
StringAddWithoutModel(content) ==
    /\ ~geminiModel
    /\ currentMemory' = content
    /\ last' = Step("addToMemory", content, "none", <<>>, "replaced", Len(content))
    /\ UNCHANGED <<memoryEntries, maxMemoryEntries, geminiModel, now, calls, accepted>>
    /\ UNCHANGED <<handlers, events, delivered, activeStreamRef, isLoading, messages>>
    /\ UNCHANGED sideVars

\* const result = await geminiModel.generateContent(prompt)
StringAddAwait(s, content) ==
    /\ geminiModel
    /\ IsFreeSlot(s)
    /\ calls' = [calls EXCEPT ![s] = UpdateCall(content, currentMemory)]
    /\ last' = Step("addToMemory", content, "none", <<>>, "updating",
                    Len(currentMemory))
    /\ UNCHANGED <<memoryEntries, maxMemoryEntries, geminiModel, now, accepted>>
    /\ UNCHANGED <<chatVars, sideVars>>

addToMemoryString(s, content) ==
    \/ StringAddWithoutModel(content)
    \/ StringAddAwait(s, content)

\* The capture tick of the variant: if (text.trim()) await addToMemory(text.trim())
StringCaptureTick(s, text) ==
    IF Trim(text) = <<>>
    THEN /\ last' = Step("capture-tick", text, "none", <<>>, "skipped",
                         Len(currentMemory))
         /\ UNCHANGED <<memoryEntries, maxMemoryEntries, geminiModel, now, calls,
                        accepted>>
         /\ UNCHANGED <<chatVars, sideVars>>
    ELSE addToMemoryString(s, Trim(text))

\* Mutant: addToMemory without its catch block: a failing call leaves the
\* memory as it is and raises the error to the capture tick.
StringUpdateReturnUncaught(s, outcome) ==
    /\ calls[s].pc = "update"
    /\ currentMemory' = IF outcome.ok THEN Trim(outcome.text) ELSE currentMemory
    /\ calls' = [calls EXCEPT ![s] = IdleCall]
    /\ last' = Step("addToMemory", calls[s].content, ReplyOf(outcome), outcome.text,
                    IF outcome.ok THEN "updated" ELSE "raised", Len(currentMemory'))
    /\ UNCHANGED <<memoryEntries, maxMemoryEntries, geminiModel, now, accepted>>
    /\ UNCHANGED <<handlers, events, delivered, activeStreamRef, isLoading, messages>>
    /\ UNCHANGED sideVars

\* addToMemory resumed: currentMemory = result.response.text().trim(), or, in
\* the catch block, currentMemory = content; the call returns normally.
StringUpdateReturn(s, outcome) ==
    /\ calls[s].pc = "update"
    /\ currentMemory' = IF outcome.ok THEN Trim(outcome.text) ELSE calls[s].content
    /\ calls' = [calls EXCEPT ![s] = IdleCall]
    /\ last' = Step("addToMemory", calls[s].content, ReplyOf(outcome), outcome.text,
                    IF outcome.ok THEN "updated" ELSE "replaced", Len(currentMemory'))
    /\ UNCHANGED <<memoryEntries, maxMemoryEntries, geminiModel, now, accepted>>
    /\ UNCHANGED <<handlers, events, delivered, activeStreamRef, isLoading, messages>>
    /\ UNCHANGED sideVars

\* ipcMain.handle('clear-memory') of the variant: currentMemory = ''.
StringClearMemory ==
    /\ currentMemory' = <<>>
    /\ last' = Step("clear-memory", <<>>, "none", <<>>, "cleared", 0)
    /\ UNCHANGED <<memoryEntries, maxMemoryEntries, geminiModel, now, calls, accepted>>
    /\ UNCHANGED <<handlers, events, delivered, activeStreamRef, isLoading, messages>>
    /\ UNCHANGED sideVars

(***************************************************************************)
(* The window: WindowManager (src/native/WindowManager.ts), its global     *)
(* shortcuts (part_012) and IPC handlers (part_009), and the renderer's    *)
(* toggleChat and toggle-collapse listener (part_003).  mainWindow exists  *)
(* from createWindow on, so the methods' tests of it pass.                 *)
(***************************************************************************)
\* toggleVisibility: show() and the stored mouse setting, or hide() and
\* setIgnoreMouseEvents(true).
toggleVisibility ==
    /\ isVisible' = ~isVisible
    /\ windowIgnoresMouse' = IF isVisible' THEN ignoreMouseEvents ELSE TRUE
    /\ UNCHANGED <<ignoreMouseEvents, isCollapsed, windowHeight, isExpanded,
                   resizeRequests, collapseEvents>>
    /\ UNCHANGED <<storeVars, chatVars, audioVars, timerVars, geminiModel, now,
                   similarity>>

\* toggleMouseEvents: the flag is flipped and handed to the window.
toggleMouseEvents ==
    /\ ignoreMouseEvents' = ~ignoreMouseEvents
    /\ windowIgnoresMouse' = ignoreMouseEvents'
    /\ UNCHANGED <<isVisible, isCollapsed, windowHeight, isExpanded,
                   resizeRequests, collapseEvents>>
    /\ UNCHANGED <<storeVars, chatVars, audioVars, timerVars, geminiModel, now,
                   similarity>>

\* setClickThrough(ignore): the flag is set and handed to the window.
setClickThrough(ignore) ==
    /\ ignoreMouseEvents' = ignore
    /\ windowIgnoresMouse' = ignore
    /\ UNCHANGED <<isVisible, isCollapsed, windowHeight, isExpanded,
                   resizeRequests, collapseEvents>>
    /\ UNCHANGED <<storeVars, chatVars, audioVars, timerVars, geminiModel, now,
                   similarity>>

\* toggleCollapse: isCollapsed is flipped, the window resized to the height
\* that goes with it, and 'toggle-collapse' sent to the renderer.
toggleCollapse ==
    /\ collapseEvents < MaxIpc
    /\ isCollapsed' = ~isCollapsed
    /\ windowHeight' = IF isCollapsed' THEN HEADER_HEIGHT ELSE EXPANDED_HEIGHT
    /\ collapseEvents' = collapseEvents + 1
    /\ UNCHANGED <<isVisible, ignoreMouseEvents, windowIgnoresMouse, isExpanded,
                   resizeRequests>>
    /\ UNCHANGED <<storeVars, chatVars, audioVars, timerVars, geminiModel, now,
                   similarity>>

\* The renderer's listener of 'toggle-collapse': setIsExpanded(prev => !prev).
ToggleCollapseListener ==
    /\ collapseEvents > 0
    /\ collapseEvents' = collapseEvents - 1
    /\ isExpanded' = ~isExpanded
    /\ UNCHANGED <<isVisible, ignoreMouseEvents, windowIgnoresMouse, isCollapsed,
                   windowHeight, resizeRequests>>
    /\ UNCHANGED <<storeVars, chatVars, audioVars, timerVars, geminiModel, now,
                   similarity>>

\* App.toggleChat up to its await: setIsExpanded(!isExpanded) and the
\* invocation of 'resize-window' with the height that goes with it.
toggleChat ==
    /\ Len(resizeRequests) < MaxIpc
    /\ isExpanded' = ~isExpanded
    /\ resizeRequests' =
           Append(resizeRequests,
                  IF isExpanded' THEN EXPANDED_HEIGHT ELSE HEADER_HEIGHT)
    /\ UNCHANGED <<isVisible, ignoreMouseEvents, windowIgnoresMouse, isCollapsed,
                   windowHeight, collapseEvents>>
    /\ UNCHANGED <<storeVars, chatVars, audioVars, timerVars, geminiModel, now,
                   similarity>>

\* ipcMain.handle('resize-window'): WindowManager.resize(height) sets the
\* size; isCollapsed is not written.  The handler does not throw, so the
\* catch block of toggleChat is not entered.
resize ==
    /\ resizeRequests # <<>>
    /\ windowHeight' = Head(resizeRequests)
    /\ resizeRequests' = Tail(resizeRequests)
    /\ UNCHANGED <<isVisible, ignoreMouseEvents, windowIgnoresMouse, isCollapsed,
                   isExpanded, collapseEvents>>
    /\ UNCHANGED <<storeVars, chatVars, audioVars, timerVars, geminiModel, now,
                   similarity>>

(***************************************************************************)
(* The capture timer: startMemoryCapture, stopMemoryCapture and the        *)
(* callback of setInterval up to its call of addToMemory.  Until then the  *)
(* callback touches no state of the program, so that part is one step.     *)
(***************************************************************************)
\* How a tick fails before it has a text: no screen source (return),
\* desktopCapturer.getSources rejecting, Tesseract.recognize rejecting (catch).
TickFailures == {"no-source", "capture-error", "ocr-error"}

\* Mutant: startMemoryCapture without its test of memoryInterval: setInterval
\* is called again and the handle of the running timer is overwritten.
StartMemoryCaptureUnguarded ==
    /\ memoryInterval' = TRUE
    /\ timers' = timers + 1
    /\ tickFailed' = FALSE
    /\ last' = Step("start-memory-capture", <<>>, "none", <<>>, "started",
                    Len(memoryEntries))
    /\ UNCHANGED <<memoryEntries, maxMemoryEntries, geminiModel, now, calls, accepted>>
    /\ UNCHANGED <<chatVars, audioVars, similarity,
                   windowVars>>

\* startMemoryCapture: returns when the timer is armed, arms it otherwise.
StartMemoryCapture ==
    /\ memoryInterval' = TRUE
    /\ timers' = IF memoryInterval THEN timers ELSE timers + 1
    /\ tickFailed' = IF memoryInterval THEN tickFailed ELSE FALSE
    /\ last' = Step("start-memory-capture", <<>>, "none", <<>>,
                    IF memoryInterval THEN "already-running" ELSE "started",
                    Len(memoryEntries))
    /\ UNCHANGED <<memoryEntries, maxMemoryEntries, geminiModel, now, calls, accepted>>
    /\ UNCHANGED <<chatVars, audioVars, similarity,
                   windowVars>>

\* stopMemoryCapture: clearInterval when the timer is armed.
StopMemoryCapture ==
    /\ memoryInterval' = FALSE
    /\ timers' = IF memoryInterval THEN timers - 1 ELSE timers
    /\ last' = Step("stop-memory-capture", <<>>, "none", <<>>,
                    IF memoryInterval THEN "stopped" ELSE "not-running",
                    Len(memoryEntries))
    /\ UNCHANGED <<memoryEntries, maxMemoryEntries, geminiModel, now, calls, accepted,
                   tickFailed>>
    /\ UNCHANGED <<chatVars, audioVars, similarity,
                   windowVars>>

\* Mutant: a failing tick that clears the timer.
IntervalTickFailedDisarms(failure) ==
    /\ memoryInterval
    /\ memoryInterval' = FALSE
    /\ timers' = timers - 1
    /\ tickFailed' = TRUE
    /\ last' = Step("capture-tick", <<>>, "none", <<>>, failure, Len(memoryEntries))
    /\ UNCHANGED <<memoryEntries, maxMemoryEntries, geminiModel, now, calls, accepted>>
    /\ UNCHANGED <<chatVars, audioVars, similarity,
                   windowVars>>

\* A tick that returns for want of a screen source, or whose catch block logs
\* the error.
IntervalTickFailed(failure) ==
    /\ memoryInterval
    /\ tickFailed' = TRUE
    /\ last' = Step("capture-tick", <<>>, "none", <<>>, failure, Len(memoryEntries))
    /\ UNCHANGED <<memoryEntries, maxMemoryEntries, geminiModel, now, calls, accepted,
                   memoryInterval, timers>>
    /\ UNCHANGED <<chatVars, audioVars, similarity,
                   windowVars>>

\* A tick whose capture and OCR gave a text.
IntervalTick(s, text, t) ==
    /\ memoryInterval
    /\ CaptureTick(s, text, t)

(***************************************************************************)
(* The audio path: useAudioRecording (part_005, part_006) records segments *)
(* and sends each to the transcribe-audio handler (part_009:119-133),      *)
(* which hands the transcript to MemoryManager.addAudioToMemory.           *)
(***************************************************************************)
\* What transcribeAudio resolves with: nothing, whitespace only, a text
\* wrapped in whitespace, a text.
Transcripts == {TextEmpty, TextBlank, TextPadded, TextB}

\* transcribeAudio resolves with a transcript or rejects (no client, a failed
\* request).
AudioOutcomes == {Resolved(text) : text \in Transcripts} \cup {Rejected}

\* Mutant: the transcript appended to the slot.
addAudioToMemoryMerged(slot, audioText) ==
    IF Trim(audioText) = <<>> THEN slot ELSE slot \o audioText

\* MemoryManager.addAudioToMemory: if (!audioText.trim()) return;
\* this.currentAudioTranscript = audioText.
addAudioToMemory(slot, audioText) ==
    IF Trim(audioText) = <<>> THEN slot ELSE audioText

\* The values of isRecording and isTranscribing in the render whose
\* startContinuousRecording is called: the callback of setInterval is created
\* in that call and keeps them.
RenderValues == [isRecording |-> isRecording, isTranscribing |-> isTranscribing]

\* startContinuousRecording, called when the App is mounted: with a stream,
\* setIsRecording(true), the first recording session and the interval; without
\* one, the catch block.
StartContinuousRecording(ok) ==
    /\ ~isRecording
    /\ ~recordingIntervalRef
    /\ IF ok
       THEN /\ isRecording' = TRUE
            /\ recorder' = "recording"
            /\ closure' = RenderValues
            /\ recordingIntervalRef' = TRUE
            /\ lastAudio' = AudioStep("start-recording", "started", <<>>)
       ELSE /\ lastAudio' = AudioStep("start-recording", "failed", <<>>)
            /\ UNCHANGED <<isRecording, recorder, closure, recordingIntervalRef>>
    /\ UNCHANGED <<currentAudioTranscript, pendingAudio, isTranscribing>>
    /\ UNCHANGED <<storeVars, chatVars, timerVars, geminiModel, now, similarity,
                   windowVars>>

\* mediaRecorder.stop() and onstop: processAudioChunks returns when there is no
\* audio; otherwise setIsTranscribing(true) and transcribe-audio is invoked,
\* its handler suspending in apiServer.transcribeAudio.
RecorderStopped(hasAudio) ==
    IF hasAudio
    THEN /\ isTranscribing' = TRUE
         /\ pendingAudio' = pendingAudio + 1
    ELSE UNCHANGED <<isTranscribing, pendingAudio>>

\* The timeout of a recording session (RECORDING_DURATION) stops its recorder.
SessionTimeout(hasAudio) ==
    /\ recorder = "recording"
    /\ hasAudio => pendingAudio < MaxPendingAudio
    /\ recorder' = "inactive"
    /\ RecorderStopped(hasAudio)
    /\ lastAudio' = AudioStep("session-timeout",
                              IF hasAudio THEN "audio" ELSE "silent", <<>>)
    /\ UNCHANGED <<currentAudioTranscript, isRecording, closure, recordingIntervalRef>>
    /\ UNCHANGED <<storeVars, chatVars, timerVars, geminiModel, now, similarity,
                   windowVars>>

\* The transcribe-audio handler resumed: a truthy transcript is handed to
\* addAudioToMemory, a rejection is caught and '' returned; the renderer's
\* processAudioChunks then calls setIsTranscribing(false).
TranscribeReturn(outcome) ==
    /\ pendingAudio > 0
    /\ pendingAudio' = pendingAudio - 1
    /\ currentAudioTranscript' =
           IF outcome.ok /\ outcome.text # <<>>
           THEN addAudioToMemory(currentAudioTranscript, outcome.text)
           ELSE currentAudioTranscript
    /\ isTranscribing' = FALSE
    /\ lastAudio' = AudioStep("transcribed", ReplyOf(outcome), outcome.text)
    /\ UNCHANGED <<isRecording, closure, recordingIntervalRef, recorder>>
    /\ UNCHANGED <<storeVars, chatVars, timerVars, geminiModel, now, similarity,
                   windowVars>>

\* The callback of setInterval(..., RECORDING_DURATION + 1000):
\* if (isRecording && !isTranscribing) startRecordingSession(), on the values
\* the callback was created with.
AudioTick ==
    /\ recordingIntervalRef
    /\ IF closure.isRecording /\ ~closure.isTranscribing
       THEN /\ recorder' = "recording"
            /\ lastAudio' = AudioStep("tick", "started", <<>>)
       ELSE /\ lastAudio' = AudioStep("tick", "skipped", <<>>)
            /\ UNCHANGED recorder
    /\ UNCHANGED <<currentAudioTranscript, pendingAudio, isRecording,
                   isTranscribing, closure, recordingIntervalRef>>
    /\ UNCHANGED <<storeVars, chatVars, timerVars, geminiModel, now, similarity,
                   windowVars>>

\* stopContinuousRecording, the cleanup of the hook when the App is unmounted:
\* clearInterval, the running recorder stopped, setIsRecording(false).
StopContinuousRecording(hasAudio) ==
    /\ isRecording
    /\ hasAudio => recorder = "recording" /\ pendingAudio < MaxPendingAudio
    /\ recordingIntervalRef' = FALSE
    /\ recorder' = "inactive"
    /\ RecorderStopped(hasAudio)
    /\ isRecording' = FALSE
    /\ lastAudio' = AudioStep("stop-recording", "none", <<>>)
    /\ UNCHANGED <<currentAudioTranscript, closure>>
    /\ UNCHANGED <<storeVars, chatVars, timerVars, geminiModel, now, similarity,
                   windowVars>>

(***************************************************************************)
(* Spec: the store from its creation, one call of addToMemory or           *)
(* consolidateMemory at a time (a capture tick ends before the next one    *)
(* starts), the IPC handlers running at any time, also while that call is  *)
(* suspended.                                                              *)
(***************************************************************************)
Next ==
    \/ \E content \in Observations, t \in Clock : addToMemory(1, content, t)
    \/ \E outcome \in AssessOutcomes, t \in Clock : AssessReturn(1, outcome, t)
    \/ \E outcome \in ConsolidateOutcomes, t \in Clock :
           ConsolidateReturn(1, outcome, t)
    \/ ConsolidateNowSimple
    \/ ConsolidateNowAwait(1)
    \/ ClearMemory
    \/ GetMemoryEntries
    \/ ChatGemini

Spec == Init /\ [][Next]_vars

(***************************************************************************)
(* SpecAssess: as Spec, with every kind of answer to the importance prompt.*)
(***************************************************************************)
NextAssess ==
    \/ \E content \in FewObservations, t \in Clock : addToMemory(1, content, t)
    \/ \E outcome \in ManyAssessOutcomes, t \in Clock : AssessReturn(1, outcome, t)
    \/ \E outcome \in ConsolidateOutcomes, t \in Clock :
           ConsolidateReturn(1, outcome, t)
    \/ ClearMemory

SpecAssess == Init /\ [][NextAssess]_vars

(***************************************************************************)
(* SpecRating: as SpecAssess, the collaborator also answering with a label *)
(* in front of the rating.                                                 *)
(***************************************************************************)
NextRating ==
    \/ \E content \in FewObservations, t \in Clock : addToMemory(1, content, t)
    \/ \E outcome \in LabelledAssessOutcomes, t \in Clock : AssessReturn(1, outcome, t)
    \/ \E outcome \in ConsolidateOutcomes, t \in Clock :
           ConsolidateReturn(1, outcome, t)
    \/ ClearMemory

SpecRating == Init /\ [][NextRating]_vars

(***************************************************************************)
(* SpecSingle: the single-string memory of MemoryManager and the store of  *)
(* main.ts with a capacity of one entry, given the same screen texts in    *)
(* the same order.  The chat-gemini handler hands the text of its capture  *)
(* to MemoryManager.addToMemory; the store is handed the same text by its  *)
(* own addToMemory, one call at a time.  The handlers are followed up to   *)
(* their generation call.                                                  *)
(***************************************************************************)
SINGLE_ENTRY == 1

\* The screen texts of the captures: two different texts, either of which may
\* come twice.
SingleCaptures == {Captured(TextPadded), Captured(TextB)}

\* How many of the screen texts the store's addToMemory has been called with:
\* the first call leaves a step in the log, the second one is in flight, has
\* pushed its entry or was dropped as a duplicate.
StoreReceived ==
    IF last.op = "start" THEN 0
    ELSE IF \/ accepted = 2
            \/ (last.op = "addToMemory" /\ last.result = "duplicate")
            \/ (accepted = 1 /\ calls[1].pc = "assess")
         THEN 2
         ELSE 1

\* addToMemory(text.trim()) of the store with the screen text the next chat
\* handler has handed to MemoryManager.addToMemory.
StoreObserves(t) ==
    /\ calls[1].pc = "idle"
    /\ StoreReceived < Len(handlers)
    /\ handlers[StoreReceived + 1].pc # "capture"
    /\ addToMemory(1, handlers[StoreReceived + 1].content, t)

\* The handlers invoked before handler q have left MemoryManager.addToMemory:
\* the single memory is given the screen texts in the order of the handlers.
EarlierHandlersStored(q) ==
    \A p \in Queries : p < q => handlers[p].pc \notin {"capture", "memory"}

NextSingle ==
    \/ \E t \in InvokeClock : InvokeChat(t)
    \/ \E q \in Queries, capture \in SingleCaptures :
           EarlierHandlersStored(q) /\ CaptureReturn(q, capture)
    \/ \E q \in Queries, outcome \in MemoryOutcomes : MemoryReturn(q, outcome)
    \/ \E t \in Clock : StoreObserves(t)
    \/ \E outcome \in AssessOutcomes, t \in Clock : AssessReturn(1, outcome, t)
    \/ \E outcome \in ConsolidateOutcomes, t \in Clock :
           ConsolidateReturn(1, outcome, t)

SpecSingle == InitWith(<<>>, SINGLE_ENTRY) /\ [][NextSingle]_vars

(***************************************************************************)
(* SpecOverlap: calls of addToMemory overlap (a capture tick starts while  *)
(* the previous one is suspended), up to MaxInFlight of them.              *)
(***************************************************************************)
NextOverlap ==
    \/ \E s \in Slots, content \in TwoObservations, t \in Clock :
           addToMemory(s, content, t)
    \/ \E s \in Slots, t \in Clock : AssessReturn(s, Rejected, t)
    \/ \E s \in Slots, outcome \in ConsolidateOutcomes, t \in Clock :
           ConsolidateReturn(s, outcome, t)
    \/ ClearMemory

SpecOverlap == Init /\ [][NextOverlap]_vars

(***************************************************************************)
(* SpecDedup: one call of addToMemory on a store of the build's capacity,  *)
(* drawn from stores that sequences of accepted observations produce.      *)
(***************************************************************************)
StoreOf(contents) ==
    [i \in 1..Len(contents) |-> MemoryEntry(0, contents[i], DEFAULT_IMPORTANCE)]

\* TextFive followed by five observations unlike it and each other: in its
\* windows TextFive is the newest entry, one of the last 5, or older than those.
DedupBase == <<TextLoginError, TextFive, TextA, TextB, TextC, TextD, TextE>>

DedupStores ==
    {StoreOf(SubSeq(DedupBase, i, j)) :
        i \in 1..(Len(DedupBase) + 1), j \in 0..Len(DedupBase)}

InitDedup ==
    \E entries \in DedupStores : InitWith(entries, MAX_MEMORY_ENTRIES)

NextDedup ==
    \/ \E content \in DedupObservations, t \in Clock :
           last.op = "start" /\ addToMemory(1, content, t)
    \/ \E outcome \in AssessOutcomes, t \in Clock : AssessReturn(1, outcome, t)

SpecDedup == InitDedup /\ [][NextDedup]_vars

(***************************************************************************)
(* SpecPrimary: observations accepted one after the other, every           *)
(* consolidation call answered with a summary, no clear.                   *)
(***************************************************************************)
NextPrimary ==
    \/ \E content \in Observations, t \in Clock : addToMemory(1, content, t)
    \/ \E outcome \in AssessOutcomes, t \in Clock : AssessReturn(1, outcome, t)
    \/ \E t \in Clock : ConsolidateResolved(1, TextSummary, t)

SpecPrimary == Init /\ [][NextPrimary]_vars

(***************************************************************************)
(* SpecContext: the readers, clear and consolidation on stores of the      *)
(* build's capacity with timestamps in milliseconds, read before and after *)
(* entries leave the window of five minutes.                               *)
(***************************************************************************)
ContextContents == <<TextA, TextB, TextC, TextD, TextE>>

\* The time of the newest entry of ContextBase.
ContextStart == 300006

\* What Date.now() returns in SpecContext.
ContextTimes == {ContextStart, 600000, 600003}

ContextClock == {t \in ContextTimes : t >= now}

\* Twelve entries pushed a millisecond apart, the last at ContextStart, with
\* importances 7, 9, 5, 7, 9, 5, ...
ContextBase ==
    [i \in 1..12 |->
        MemoryEntry(ContextStart - 12 + i,
                    ContextContents[((i - 1) % 5) + 1],
                    IF i % 3 = 0 THEN 5 ELSE IF i % 3 = 1 THEN 7 ELSE 9)]

ContextStores ==
    {SubSeq(ContextBase, i, j) :
        i \in 1..(Len(ContextBase) + 1), j \in 0..Len(ContextBase)}

InitContext ==
    \E entries \in ContextStores :
        InitAt(entries, MAX_MEMORY_ENTRIES, ContextStart)

NextContext ==
    \/ ChatGemini
    \/ GetMemoryEntries
    \/ ClearMemory
    \/ ConsolidateNowSimple
    \/ ConsolidateNowAwait(1)
    \/ \E outcome \in ConsolidateOutcomes, t \in ContextClock :
           ConsolidateReturn(1, outcome, t)

SpecContext == InitContext /\ [][NextContext]_vars

(***************************************************************************)
(* SpecDirect: observations handed to the store by the capture tick, which *)
(* trims and tests the text, and by calls of addToMemory itself.           *)
(***************************************************************************)
NextDirect ==
    \/ \E text \in RawTexts, t \in Clock : CaptureTick(1, text, t)
    \/ \E content \in DirectContents, t \in Clock : addToMemory(1, content, t)
    \/ \E outcome \in AssessOutcomes, t \in Clock : AssessReturn(1, outcome, t)
    \/ \E outcome \in ConsolidateOutcomes, t \in Clock :
           ConsolidateReturn(1, outcome, t)

SpecDirect == Init /\ [][NextDirect]_vars

(***************************************************************************)
(* SpecChat: chat queries of the modular build.  SpecChatFair adds that    *)
(* every await of a handler settles and every event sent is delivered; the *)
(* user is not made to submit.                                             *)
(***************************************************************************)
ChatProgress ==
    \/ \E q \in Queries, capture \in ScreenCaptures : CaptureReturn(q, capture)
    \/ \E q \in Queries, outcome \in MemoryOutcomes : MemoryReturn(q, outcome)
    \/ \E q \in Queries, ok \in BOOLEAN : GenerateReturn(q, ok)
    \/ \E q \in Queries, chunk \in ChunkTexts : StreamChunk(q, chunk)
    \/ \E q \in Queries : StreamEnd(q)
    \/ \E q \in Queries : StreamError(q)
    \/ Deliver

NextChat ==
    \/ \E input \in QueryInputs, t \in SubmitClock : HandleSubmit(input, t)
    \/ \E q \in Queries, capture \in ScreenCaptures : CaptureReturn(q, capture)
    \/ \E q \in Queries, outcome \in MemoryOutcomes : MemoryReturn(q, outcome)
    \/ \E q \in Queries, ok \in BOOLEAN : GenerateReturn(q, ok)
    \/ \E q \in Queries, chunk \in ChunkTexts : StreamChunk(q, chunk)
    \/ \E q \in Queries : StreamEnd(q)
    \/ \E q \in Queries : StreamError(q)
    \/ Deliver

SpecChat == Init /\ [][NextChat]_vars

SpecChatFair == Init /\ [][NextChat]_vars /\ WF_vars(ChatProgress)

(***************************************************************************)
(* SpecRemount: as SpecChat, the App being mounted again at any time, so   *)
(* that a query is submitted while the stream of an earlier one is still   *)
(* running (handleSubmit refuses a submit while isLoading).                *)
(***************************************************************************)
NextRemount ==
    \/ NextChat
    \/ MountApp

SpecRemount == Init /\ [][NextRemount]_vars

(***************************************************************************)
(* SpecHistory: as SpecChat, the history being cleared at any time, also   *)
(* while a stream is running.                                              *)
(***************************************************************************)
NextHistory ==
    \/ NextChat
    \/ clearHistory

SpecHistory == Init /\ [][NextHistory]_vars

(***************************************************************************)
(* SpecWindow: the shortcuts and IPC handlers of the window and the        *)
(* renderer's toggles, in any order, messages between the two processes    *)
(* being in flight meanwhile.                                              *)
(***************************************************************************)
NextWindow ==
    \/ toggleVisibility
    \/ toggleMouseEvents
    \/ \E ignore \in BOOLEAN : setClickThrough(ignore)
    \/ toggleCollapse
    \/ ToggleCollapseListener
    \/ toggleChat
    \/ resize

SpecWindow == Init /\ [][NextWindow]_vars

(***************************************************************************)
(* SpecInvoke: as SpecChat, the handler also being invoked without a       *)
(* messageId, by a caller that does not wait for the previous answer.      *)
(***************************************************************************)
NextInvoke ==
    \/ NextChat
    \/ \E t \in InvokeClock : InvokeChat(t)

SpecInvoke == Init /\ [][NextInvoke]_vars

(***************************************************************************)
(* SpecAudio: continuous recording started when the App is mounted, its    *)
(* sessions, the interval, and the transcriptions they lead to.            *)
(***************************************************************************)
NextAudio ==
    \/ \E ok \in BOOLEAN : StartContinuousRecording(ok)
    \/ \E hasAudio \in BOOLEAN : SessionTimeout(hasAudio)
    \/ \E outcome \in AudioOutcomes : TranscribeReturn(outcome)
    \/ AudioTick
    \/ \E hasAudio \in BOOLEAN : StopContinuousRecording(hasAudio)

SpecAudio == Init /\ [][NextAudio]_vars

(***************************************************************************)
(* SpecCapture: the capture timer started and stopped, its ticks failing   *)
(* or handing a text to addToMemory.                                       *)
(***************************************************************************)
\* What the OCR returns over the ticks of one run of the timer: enough
\* different texts for the store to pass its capacity.
TickTexts == RawTexts \cup {TextC}

NextCapture ==
    \/ StartMemoryCapture
    \/ StopMemoryCapture
    \/ \E failure \in TickFailures : IntervalTickFailed(failure)
    \/ \E text \in TickTexts, t \in Clock : IntervalTick(1, text, t)
    \/ \E outcome \in AssessOutcomes, t \in Clock : AssessReturn(1, outcome, t)
    \/ \E outcome \in ConsolidateOutcomes, t \in Clock :
           ConsolidateReturn(1, outcome, t)

SpecCapture == Init /\ [][NextCapture]_vars

(***************************************************************************)
(* SpecString: the single-string memory of main.ts fed by its capture      *)
(* ticks, a tick firing while the update call of an earlier one is pending,*)
(* and cleared at any time.                                                *)
(***************************************************************************)
NextString ==
    \/ \E s \in Slots, text \in TickTexts : StringCaptureTick(s, text)
    \/ \E s \in Slots, outcome \in MemoryOutcomes : StringUpdateReturn(s, outcome)
    \/ StringClearMemory

SpecString == Init /\ [][NextString]_vars

(***************************************************************************)
(* SpecSimilarity: calculateSimilarity applied to pairs of texts, among    *)
(* them the empty text, whitespace, and texts wrapped in whitespace.       *)
(***************************************************************************)
SimilarityTexts == DedupObservations \cup {TextEmpty, TextBlank, TextPadded}

NextSimilarity ==
    \E text1, text2 \in SimilarityTexts : CompareTexts(text1, text2)

SpecSimilarity == Init /\ [][NextSimilarity]_vars

(***************************************************************************)
(* SpecAssembly: chat queries while audio segments are transcribed, so     *)
(* that the transcript slot and the memory change before and after a       *)
(* handler reads them.                                                     *)
(***************************************************************************)
AssemblyTranscripts == {Resolved(TextB), Resolved(TextPadded)}

NextAssembly ==
    \/ \E input \in QueryInputs, t \in SubmitClock : HandleSubmit(input, t)
    \/ \E q \in Queries, capture \in ScreenCaptures : CaptureReturn(q, capture)
    \/ \E q \in Queries, outcome \in MemoryOutcomes : MemoryReturn(q, outcome)
    \/ \E q \in Queries, ok \in BOOLEAN : GenerateReturn(q, ok)
    \/ \E q \in Queries : StreamEnd(q)
    \/ Deliver
    \/ StartContinuousRecording(TRUE)
    \/ SessionTimeout(TRUE)
    \/ StopContinuousRecording(FALSE)
    \/ \E outcome \in AssemblyTranscripts : TranscribeReturn(outcome)

SpecAssembly == Init /\ [][NextAssembly]_vars

(***************************************************************************)
(* SpecClear: chat queries, recording sessions and their transcriptions,   *)
(* the capture timer being started and the memory of MemoryManager being   *)
(* cleared at any time, also while a stream or a transcription is in       *)
(* progress.                                                               *)
(***************************************************************************)
NextClear ==
    \/ \E input \in QueryInputs, t \in SubmitClock : HandleSubmit(input, t)
    \/ \E q \in Queries, capture \in ScreenCaptures : CaptureReturn(q, capture)
    \/ \E q \in Queries, outcome \in MemoryOutcomes : MemoryReturn(q, outcome)
    \/ \E q \in Queries : GenerateReturn(q, TRUE)
    \/ \E q \in Queries : StreamChunk(q, <<"x">>)
    \/ \E q \in Queries : StreamEnd(q)
    \/ Deliver
    \/ StartContinuousRecording(TRUE)
    \/ SessionTimeout(TRUE)
    \/ TranscribeReturn(Resolved(TextB))
    \/ StartMemoryCapture
    \/ clearMemory

SpecClear == Init /\ [][NextClear]_vars

(***************************************************************************)
(* Properties.                                                             *)
(***************************************************************************)
\* No call of addToMemory or consolidateMemory is suspended.
AtRest == InFlight = {}

\* A reader of the store has just run.
ReaderRan == last.op \in {"get-memory-entries", "chat-gemini"}

\* C1: whenever no operation is in progress, the store holds between 0 and
\* MAX_MEMORY_ENTRIES entries, after any sequence of addToMemory calls run to
\* completion (consolidation included), consolidations and clears.
C1_CapacityAtRest ==
    AtRest => Len(memoryEntries) \in 0..maxMemoryEntries

\* An insert over the capacity was consolidated and left the store full, at rest.
C1_Witness ==
    /\ AtRest
    /\ last.result = "added-simple"
    /\ Len(memoryEntries) = maxMemoryEntries

\* C2: no reader (get-memory-entries, the chat handler's getMemoryContext) runs
\* while the store holds more than MAX_MEMORY_ENTRIES entries.
C2_ReadersNeverSeeOvershoot ==
    ReaderRan => last.size <= maxMemoryEntries

\* C3: at most one call of addToMemory or consolidateMemory is in flight at any
\* time, and a clear runs only while none is.
C3_MutationsSerialized ==
    /\ Cardinality(InFlight) <= 1
    /\ last.op = "clear-memory" => AtRest

\* C4: when the response of a consolidation is applied, the store still holds
\* exactly the entries its prompt was built from.
C4_ResponseAppliedToItsSnapshot ==
    [][\A s \in Slots :
          (calls[s].pc = "consolidate" /\ calls'[s].pc = "idle"
              /\ last'.result = "ai")
          => memoryEntries = calls[s].prompt]_vars

\* The word-set Jaccard similarity of two texts is greater than 0.8.
JaccardAboveThreshold(text1, text2) ==
    5 * Cardinality(WordSet(text1) \cap WordSet(text2))
        > 4 * Cardinality(WordSet(text1) \cup WordSet(text2))

\* The observation is a near-duplicate of one of the last 5 stored entries.
NearDuplicateOfLastFive(entries, content) ==
    \E i \in 1..Len(entries) :
        /\ i > Len(entries) - 5
        /\ JaccardAboveThreshold(entries[i].content, content)

\* The step appends exactly one entry, with that content, and changes nothing else
\* in the store.
AppendsOne(content) ==
    /\ Len(memoryEntries') = Len(memoryEntries) + 1
    /\ SubSeq(memoryEntries', 1, Len(memoryEntries)) = memoryEntries
    /\ memoryEntries'[Len(memoryEntries')].content = content

\* C5: an observation whose similarity to any of the last 5 stored entries is
\* greater than 0.8 leaves the store unchanged and requests no importance
\* assessment.
C5_DuplicateIsDropped ==
    [][(last'.op = "addToMemory"
            /\ NearDuplicateOfLastFive(memoryEntries, last'.content))
        => /\ memoryEntries' = memoryEntries
           /\ calls' = calls
           /\ last'.result = "duplicate"]_vars

\* A near-duplicate (not the same text) of a stored entry was dropped.
C5_Witness ==
    /\ last.op = "addToMemory"
    /\ last.result = "duplicate"
    /\ NearDuplicateOfLastFive(memoryEntries, last.content)
    /\ \A i \in 1..Len(memoryEntries) : memoryEntries[i].content # last.content

\* C6: an observation whose similarity to each of the last 5 stored entries is
\* at most 0.8 (exactly 0.8 included, a duplicate of an older entry included)
\* is appended as exactly one entry with that content: at once without a
\* model, and when the importance assessment returns with one.  Checked on
\* stores below their capacity, where no consolidation follows the push.
C6_DistinctIsAppended ==
    [][/\ (last'.op = "addToMemory"
              /\ ~NearDuplicateOfLastFive(memoryEntries, last'.content))
          => IF geminiModel
             THEN /\ memoryEntries' = memoryEntries
                  /\ \E s \in Slots : /\ calls[s].pc = "idle"
                                      /\ calls'[s].pc = "assess"
                                      /\ calls'[s].content = last'.content
             ELSE AppendsOne(last'.content)
       /\ \A s \in Slots :
             (calls[s].pc = "assess" /\ calls'[s].pc # "assess")
             => AppendsOne(calls[s].content)]_vars

\* The scenario of the specification: "login error" stored, "login error
\* occurred" appended, length 2.
C6_Witness ==
    /\ last.result = "added"
    /\ Len(memoryEntries) = 2
    /\ memoryEntries[1].content = TextLoginError
    /\ memoryEntries[2].content = TextLoginErrorOccurred

\* C7: every entry of the store has an integer importance in [1,10], whatever the
\* collaborator answered, entries left or produced by consolidation included.
C7_ImportanceInRange ==
    \A i \in 1..Len(memoryEntries) : memoryEntries[i].importance \in 1..10

\* An answer above 10 was clamped, and the entry is in the store.
C7_Witness ==
    /\ last.op = "assessContentImportance"
    /\ last.text = ResponseFifteen
    /\ memoryEntries[Len(memoryEntries)].importance = 10

\* Answers that do not parse to an integer.
NonNumericResponses == {ResponseWords, ResponseEmpty}

\* C8: the assessment is exactly 5 when the collaborator is unavailable, when its
\* call fails and when its answer does not parse to an integer; the call of
\* addToMemory goes on and pushes the entry.
C8_DefaultImportance ==
    /\ (last.op = "assessContentImportance"
           /\ (last.reply = "rejected" \/ last.text \in NonNumericResponses))
       => /\ Len(memoryEntries) > 0
          /\ memoryEntries[Len(memoryEntries)].importance = 5
          /\ memoryEntries[Len(memoryEntries)].content = last.content
    /\ (last.op = "addToMemory" /\ last.result = "added" /\ ~geminiModel)
       => memoryEntries[Len(memoryEntries)].importance = 5

\* The collaborator's call failed and the entry was pushed with importance 5.
C8_Witness ==
    /\ last.op = "assessContentImportance"
    /\ last.reply = "rejected"
    /\ memoryEntries[Len(memoryEntries)].importance = 5
    /\ memoryEntries[Len(memoryEntries)].content = last.content

\* The smallest integer not below half the capacity.
CeilHalf(n) == (n + 1) \div 2

\* The entries a consolidation step works on: for an insert without a model, the
\* store with the new entry pushed.
ConsolidatedEntries ==
    IF last'.result = "added-simple"
    THEN Append(memoryEntries, MemoryEntry(now', last'.content, 5))
    ELSE memoryEntries

\* C9: when the collaborator is unavailable or its call fails, consolidation
\* keeps exactly the top ceil(MAX_MEMORY_ENTRIES / 2) entries by (importance
\* descending, timestamp descending).
C9_FallbackKeepsHalf ==
    [][last'.result \in {"added-simple", "fallback"}
        => memoryEntries' =
              FirstN(SortEntries(ConsolidatedEntries), CeilHalf(maxMemoryEntries))]_vars

\* C10: when the collaborator succeeds, consolidation replaces the whole
\* sequence by one entry holding the returned summary, with importance 8.
C10_SummaryReplacesAll ==
    last.result = "ai"
    => /\ Len(memoryEntries) = 1
       /\ memoryEntries[1].content = last.text
       /\ memoryEntries[1].importance = 8

\* An insert overflowed the store and its consolidation succeeded.
C10_Witness ==
    /\ last.result = "ai"
    /\ last.content \in Observations
    /\ memoryEntries[1].content = TextSummary

\* C11: with the collaborator answering, once more than MAX_MEMORY_ENTRIES
\* observations have been accepted and the insert of the last one has
\* completed, the store holds at most MAX_MEMORY_ENTRIES entries and at least
\* one of them has importance 8 or more.
C11_OverflowLeavesSummary ==
    (geminiModel /\ AtRest /\ accepted > maxMemoryEntries)
    => /\ Len(memoryEntries) <= maxMemoryEntries
       /\ \E i \in 1..Len(memoryEntries) : memoryEntries[i].importance >= 8

\* The insert that overflowed the store was consolidated, and a further
\* observation with an importance below 8 was accepted after the summary.
C11_Witness ==
    /\ geminiModel /\ AtRest /\ accepted > maxMemoryEntries
    /\ last.result = "added"
    /\ Len(memoryEntries) = 2
    /\ memoryEntries[1].content = TextSummary
    /\ memoryEntries[2].importance < 8

\* C12: whenever no operation is in progress the entries of the store are in
\* insertion order, oldest first (timestamps never decrease along the store),
\* so that the last entries of the store are its newest.
C12_InsertionOrder ==
    AtRest => \A i, j \in 1..Len(memoryEntries) :
                  i < j => memoryEntries[i].timestamp <= memoryEntries[j].timestamp

\* The entries of a store, as a set.
EntriesOf(entries) == {entries[i] : i \in 1..Len(entries)}

\* The entry is the one the step created: the observation pushed by addToMemory,
\* or the summary of a successful consolidation.
CreatedByStep(entry) ==
    /\ entry.timestamp = now'
    /\ \/ /\ last'.result \in {"added", "added-consolidating", "added-simple"}
          /\ entry.content = last'.content
       \/ /\ last'.result = "ai"
          /\ entry.content = last'.text
          /\ entry.importance = CONSOLIDATED_IMPORTANCE

\* C13: a stored entry is never edited: after every step each entry of the store
\* is an entry the store held before, with the same content, timestamp and
\* importance, or the one entry the step created; the fallback consolidations
\* only remove entries, and the primary one leaves only the new entry.
C13_EntriesNeverEdited ==
    [][/\ \A i \in 1..Len(memoryEntries') :
              \/ memoryEntries'[i] \in EntriesOf(memoryEntries)
              \/ CreatedByStep(memoryEntries'[i])
       /\ last'.result \in {"fallback", "simple"}
            => /\ EntriesOf(memoryEntries') \subseteq EntriesOf(memoryEntries)
               /\ Len(memoryEntries') <= Len(memoryEntries)
       /\ last'.result = "ai"
            => /\ Len(memoryEntries') = 1
               /\ CreatedByStep(memoryEntries'[1])]_vars

\* A failed consolidation call kept an entry with the importance it was
\* assessed with.
C13_Witness ==
    /\ last.result = "fallback"
    /\ Len(memoryEntries) >= 1
    /\ memoryEntries[1].importance = 7

\* The entry has importance 6 or more or was created within the last 5 minutes.
Qualifies(entry, t) ==
    entry.importance >= 6 \/ entry.timestamp > t - 300000

\* The rendered entries are the most recent 10 of the qualifying ones, oldest
\* first.
RendersMostRecent(entries, t) ==
    LET rendered == ContextEntries(entries, t)
        qualifying == {e \in EntriesOf(entries) : Qualifies(e, t)}
    IN  /\ EntriesOf(rendered) \subseteq qualifying
        /\ Len(rendered) = Min(10, Cardinality(qualifying))
        /\ \A i, j \in 1..Len(rendered) :
               i < j => rendered[i].timestamp <= rendered[j].timestamp
        /\ \A e \in qualifying \ EntriesOf(rendered) :
               \A i \in 1..Len(rendered) : e.timestamp <= rendered[i].timestamp

\* C14: the chat handler's getMemoryContext returns the empty string for an
\* empty store, and otherwise renders exactly the most recent 10, oldest first,
\* of the entries with importance 6 or more or created within the last 5
\* minutes, whenever it reads the clock.
C14_ContextIsMostRecentTen ==
    last.op = "chat-gemini"
    => \A t \in ContextClock :
          /\ memoryEntries = <<>> => getMemoryContext(memoryEntries, t) = <<>>
          /\ RendersMostRecent(memoryEntries, t)

\* C15: after clear-memory, from any state of the store, get-memory-entries
\* returns the empty sequence and getMemoryContext the empty string, also for
\* the reader that runs next; the store being empty, a second clear leaves
\* every variable as it is.
C15_ClearEmpties ==
    [][/\ last'.op = "clear-memory"
            => /\ memoryEntries' = <<>>
               /\ getRawEntries(memoryEntries') = <<>>
               /\ \A t \in ContextTimes :
                      getMemoryContext(memoryEntries', t) = <<>>
       /\ (last.op = "clear-memory" /\ last'.op \in {"get-memory-entries", "chat-gemini"})
            => /\ last'.size = 0
               /\ getRawEntries(memoryEntries') = <<>>
               /\ \A t \in ContextTimes :
                      getMemoryContext(memoryEntries', t) = <<>>]_vars

\* A store of several entries was cleared while its consolidation was pending,
\* and a reader ran next.
C15_Witness ==
    /\ ReaderRan
    /\ last.size = 0
    /\ memoryEntries = <<>>
    /\ calls[1].pc = "consolidate"
    /\ Len(calls[1].prompt) > 1

\* C16: addToMemory never raises to its caller.  Whatever the collaborator does
\* (no model, a rejected call, an answer that is no number), the step that
\* meets the failure is a normal step of the call: the entry is pushed with
\* the default importance, or the fallback consolidation is applied and the
\* call returns; no step ends with an exception raised.
C16_AddNeverRaises ==
    /\ last.result # "raised"
    /\ (last.op = "assessContentImportance"
           /\ (last.reply = "rejected" \/ last.text \in NonNumericResponses))
       => last.result \in {"added", "added-consolidating"}
    /\ (last.op = "consolidateMemory" /\ last.reply = "rejected")
       => (last.result = "fallback" /\ AtRest)
    /\ (last.op = "addToMemory" /\ ~geminiModel)
       => (last.result \in {"duplicate", "added", "added-simple"} /\ AtRest)

\* The consolidation call of an overflowing insert was rejected and the call of
\* addToMemory returned.
C16_Witness ==
    /\ last.op = "consolidateMemory"
    /\ last.reply = "rejected"
    /\ last.content \in FewObservations
    /\ AtRest

\* C17: an observation that is empty or whitespace only leaves the store
\* unchanged and starts no collaborator call, whether it comes from the capture
\* tick or from a call of addToMemory itself.
C17_BlankIsNoOp ==
    [][(last'.op \in {"capture-tick", "addToMemory"} /\ Trim(last'.content) = <<>>)
        => (memoryEntries' = memoryEntries /\ calls' = calls)]_vars

\* The positions in the channel of the events of a stream id.
EventsOf(streamId) == {i \in 1..Len(events) : events[i].streamId = streamId}

\* C18: for every stream id at most one event with done is sent, and no event
\* with that id is sent after it.
C18_TerminalEventIsLast ==
    \A i, j \in 1..Len(events) :
        (i < j /\ events[i].streamId = events[j].streamId) => ~events[i].done

\* Two queries have been answered, the first one by snapshots and a final
\* event, each with a terminal event of its own id.
C18_Witness ==
    /\ Len(handlers) = 2
    /\ \A q \in Queries : handlers[q].pc = "returned"
    /\ handlers[1].streamId # handlers[2].streamId
    /\ Cardinality(EventsOf(handlers[1].streamId)) = 3
    /\ \A q \in Queries : \E i \in EventsOf(handlers[q].streamId) : events[i].done

\* C19: when the generation call of a query has failed (no model, the call
\* rejected, or the stream threw part-way) and its handler has returned,
\* exactly one event with done and error, carrying the generic message, has
\* been sent for its stream id.
C19_FailureSendsOneErrorEvent ==
    \A q \in Queries :
        (handlers[q].pc = "returned" /\ handlers[q].failure # "none")
        => /\ Cardinality({i \in EventsOf(handlers[q].streamId) :
                              events[i].done /\ events[i].error}) = 1
           /\ \A i \in EventsOf(handlers[q].streamId) :
                 events[i].error => events[i].text = ErrorStreamText

\* C20: every submitted query reaches a terminal state at the consumer: the
\* loading flag set by a submit is eventually cleared (by a delivered done
\* event or by a rejected submit call).
C20_LoadingEventuallyEnds ==
    isLoading ~> ~isLoading

\* The events of a stream id, in the order they were sent.
StreamOf(streamId) ==
    LET Tagged(e) == e.streamId = streamId
    IN  SelectSeq(events, Tagged)

\* Text a is a prefix of text b.
IsPrefix(a, b) == Len(a) <= Len(b) /\ SubSeq(b, 1, Len(a)) = a

DeliveredTexts(streamId) ==
    {events[i].text : i \in {j \in 1..delivered : events[j].streamId = streamId}}

\* The text of the terminal event of a stream id, if the listener has been
\* given it.
DeliveredFinalTexts(streamId) ==
    {events[i].text :
        i \in {j \in 1..delivered : events[j].streamId = streamId /\ events[j].done}}

\* The listener has just been given an event of a stream that is not the
\* active one.
StaleDelivery ==
    /\ delivered' = delivered + 1
    /\ events[delivered + 1].streamId # activeStreamRef

\* C22: an event of a stream other than the active one changes neither the
\* messages nor the loading flag nor the active id; an assistant message shows
\* only texts of events of its own stream, and once its stream is no longer
\* the active one it shows the text of that stream's terminal event.
C22_StaleEventsIgnored ==
    /\ [][StaleDelivery =>
              /\ messages' = messages
              /\ isLoading' = isLoading
              /\ activeStreamRef' = activeStreamRef]_vars
    /\ [](\A m \in 1..Len(messages) :
              messages[m].role = "assistant"
              => /\ messages[m].content \in {<<>>} \cup DeliveredTexts(messages[m].id)
                 /\ messages[m].id # activeStreamRef
                    => messages[m].content \in DeliveredFinalTexts(messages[m].id))

\* Query B was submitted while the stream of query A was running; the listener
\* was given B's terminal event and, after it, an event of A; the message
\* shows B's final text.
C22_Witness ==
    /\ Len(handlers) = 2
    /\ Len(messages) = 2
    /\ messages[2].id = handlers[2].streamId
    /\ \E i, j \in 1..delivered :
           /\ i < j
           /\ events[i].streamId = handlers[2].streamId /\ events[i].done
           /\ events[j].streamId = handlers[1].streamId
           /\ events[j].text # events[i].text
           /\ messages[2].content = events[i].text

\* C23: every query is given a stream id that no earlier query was given,
\* whether the id comes from handleSubmit or from the handler, also when two
\* queries are submitted within the same millisecond.
C23_StreamIdsUnique ==
    \A p, q \in Queries : p # q => handlers[p].streamId # handlers[q].streamId

\* A transcription has just completed.
TranscriptionCompleted == pendingAudio' = pendingAudio - 1

\* C24: the transcript slot changes only when a transcription completes; then
\* it becomes exactly the transcript if that is not empty or whitespace only,
\* and stays what it was for such a transcript and for a failed transcription.
C24_SlotIsLastTranscript ==
    [][/\ TranscriptionCompleted
          => currentAudioTranscript' =
                 IF lastAudio'.reply = "resolved" /\ Trim(lastAudio'.text) # <<>>
                 THEN lastAudio'.text
                 ELSE currentAudioTranscript
       /\ ~TranscriptionCompleted
          => currentAudioTranscript' = currentAudioTranscript]_vars

\* The slot holds a transcript, kept with its surrounding whitespace, and the
\* transcription that completed last had failed.
C24_Witness ==
    /\ currentAudioTranscript = TextPadded
    /\ lastAudio.op = "transcribed"
    /\ lastAudio.reply = "rejected"

\* C27: while recording is active and no transcription is in progress, a tick
\* of the audio interval starts a new recording session.
C27_TickStartsSession ==
    (lastAudio.op = "tick" /\ isRecording /\ ~isTranscribing)
    => (lastAudio.reply = "started" /\ recorder = "recording")

\* C25: a capture tick that fails leaves the store and the suspended calls as
\* they were and the timer armed; the timer is disarmed by stopMemoryCapture
\* only.
C25_FailedTickKeepsTimer ==
    [][/\ (last'.op = "capture-tick" /\ last'.result \in TickFailures)
          => /\ memoryEntries' = memoryEntries
             /\ calls' = calls
             /\ memoryInterval'
       /\ (memoryInterval /\ ~memoryInterval')
          => last'.op = "stop-memory-capture"]_vars

\* After a failed tick, a later tick has added its observation and the timer
\* is still armed.
C25_Witness ==
    /\ tickFailed
    /\ memoryInterval
    /\ last.op \in {"addToMemory", "assessContentImportance"}
    /\ last.result = "added"
    /\ Len(memoryEntries) = 2

\* The lowercase words of a text: the maximal runs of characters that are not
\* whitespace, and the empty word for the empty text and for a text that
\* starts or ends with whitespace (the pieces split(/\s+/) gives).
WordsOf(text) ==
    LET lower == ToLowerCase(text)
        n == Len(lower)
        IsRun(i, j) ==
            /\ \A k \in i..j : ~IsSpace(lower[k])
            /\ i = 1 \/ IsSpace(lower[i - 1])
            /\ j = n \/ IsSpace(lower[j + 1])
        runs == {SubSeq(lower, r[1], r[2]) :
                    r \in {x \in (1..n) \X (1..n) : x[1] <= x[2] /\ IsRun(x[1], x[2])}}
    IN  IF n = 0 \/ IsSpace(lower[1]) \/ IsSpace(lower[n])
        THEN runs \cup {<<>>}
        ELSE runs

\* C26: calculateSimilarity(a, b) is the size of the intersection of the word
\* sets of a and b over the size of their union; the divisor is never 0, the
\* value lies between 0 and 1, it is the same for (b, a), and it is 1 for
\* (a, a).
C26_SimilarityIsJaccard ==
    last.op = "calculateSimilarity"
    => LET a == last.content
           b == last.text
       IN  /\ similarity.den > 0
           /\ 0 <= similarity.num /\ similarity.num <= similarity.den
           /\ similarity.num = Cardinality(WordsOf(a) \cap WordsOf(b))
           /\ similarity.den = Cardinality(WordsOf(a) \cup WordsOf(b))
           /\ calculateSimilarity(b, a) = similarity
           /\ a = b => similarity.num = similarity.den

\* The similarity of the empty text and a text of five words has been
\* computed: 0 of 6.
C26_Witness ==
    /\ last.op = "calculateSimilarity"
    /\ last.content = TextEmpty
    /\ last.text = TextFive
    /\ similarity = [num |-> 0, den |-> 6]

\* C28: a handler reads the memory context and the audio context only after
\* its capture and its addToMemory have finished; the generation call is made
\* with the screen text and the image of its capture and with the contexts as
\* they are at that moment, the memory then holding what addToMemory left; and
\* what the call was made with does not change afterwards.
C28_ContextAssembledAfterAdd ==
    /\ [](\A q \in Queries :
              handlers[q].pc \in {"capture", "memory"} => ~handlers[q].bundle.made)
    /\ [][\A q \in Queries :
              /\ (~handlers[q].bundle.made /\ handlers'[q].bundle.made)
                 => /\ handlers[q].pc \in {"capture", "memory"}
                    /\ handlers'[q].bundle =
                           Bundle(handlers'[q].screenText, handlers'[q].imageDataURL,
                                  MemoryManagerContext(currentMemory'),
                                  getAudioContext(currentAudioTranscript'))
                    /\ handlers'[q].content # <<>> => currentMemory' # <<>>
              /\ handlers[q].bundle.made
                 => handlers'[q].bundle = handlers[q].bundle]_vars

\* A generation call was made with a memory context and an audio context, and
\* the transcript slot and the memory have changed since.
C28_Witness ==
    \E q \in Queries :
        /\ handlers[q].bundle.made
        /\ handlers[q].bundle.audioContext = AudioPrefix \o TextB
        /\ currentAudioTranscript = TextPadded
        /\ handlers[q].bundle.memoryContext # <<>>
        /\ handlers[q].bundle.memoryContext # MemoryManagerContext(currentMemory)
        /\ handlers[q].bundle.screenText = TextPadded

\* C29: no two entries within the window of the duplicate filter have the same
\* content, also when the calls of addToMemory that stored them overlapped:
\* of two overlapping calls with the same content at most one appends.
C29_OverlapAppendsOnce ==
    \A i, j \in 1..Len(memoryEntries) :
        (i < j /\ j - i < RECENT_WINDOW)
        => memoryEntries[i].content # memoryEntries[j].content

\* The entries a suspended consolidation call built its prompt from are no
\* longer all in the store: the store was cleared while the call was suspended.
ClearedSince(s) ==
    /\ calls[s].pc = "consolidate"
    /\ \E i \in 1..Len(calls[s].prompt) :
           \A k \in 1..Len(memoryEntries) : memoryEntries[k] # calls[s].prompt[i]

\* C30: when the store was cleared while a consolidation call was suspended,
\* the call, once it finishes, puts nothing into the store that was made from
\* the entries stored before the clear: every entry it leaves was in the store
\* already.
C30_ClearNotUndone ==
    [][\A s \in Slots :
          (ClearedSince(s) /\ calls'[s].pc = "idle")
          => \A k \in 1..Len(memoryEntries') :
                 \E i \in 1..Len(memoryEntries) : memoryEntries[i] = memoryEntries'[k]]_vars

\* The first integer token of a text: the first maximal run of digits, negated
\* when a minus sign stands right before it.
RECURSIVE FirstIntegerFrom(_, _)
FirstIntegerFrom(s, negative) ==
    IF s = <<>> THEN [found |-> FALSE, value |-> 0]
    ELSE IF IsDigit(Head(s))
         THEN [found |-> TRUE,
               value |-> IF negative THEN 0 - DigitsValue(s, 0) ELSE DigitsValue(s, 0)]
         ELSE FirstIntegerFrom(Tail(s), Head(s) = "-")

FirstIntegerToken(text) == FirstIntegerFrom(text, FALSE)

\* C31: the importance given to an entry after the collaborator answered is
\* min(10, max(1, n)), n being the first integer token of the answer, also
\* when text that is not a number comes before that token.
C31_FirstIntegerToken ==
    (last.op = "assessContentImportance" /\ last.reply = "resolved"
        /\ FirstIntegerToken(last.text).found)
    => memoryEntries[Len(memoryEntries)].importance
          = Min(10, Max(1, FirstIntegerToken(last.text).value))

\* Both memories have been given the same screen texts and neither is in the
\* middle of a call.
BothAtRest ==
    /\ \A s \in Slots : calls[s].pc = "idle"
    /\ \A q \in Queries : handlers[q].pc \notin {"capture", "memory"}
    /\ StoreReceived = Len(handlers)

\* The content of the sole entry of the store, '' for the empty store.
SoleContent ==
    IF memoryEntries = <<>> THEN <<>> ELSE memoryEntries[1].content

C33_ConsolidationNeverGrows ==
    [][/\ \A s \in Slots :
              (calls[s].pc = "consolidate" /\ calls'[s].pc = "idle")
              => Len(memoryEntries') <= Len(calls[s].prompt)
       /\ (last'.op = "consolidate-memory" /\ last'.result = "simple")
              => Len(memoryEntries') <= Len(memoryEntries)]_vars

\* C34: when the update call of the single-string memory fails, the call of
\* addToMemory returns normally and the memory is exactly the text it was
\* called with.
C34_FailedUpdatePassesThrough ==
    (last.op = "addToMemory" /\ last.reply = "rejected")
    => /\ currentMemory = last.content
       /\ last.result = "replaced"

\* The update call that addToMemory made for a text has failed, and the memory
\* is that text.
C34_Witness ==
    /\ last.op = "addToMemory"
    /\ last.reply = "rejected"
    /\ last.content = TextB
    /\ currentMemory = TextB

\* C35: at most one capture timer exists at any time: startMemoryCapture with
\* the timer armed creates no second one, stopMemoryCapture without a timer
\* changes nothing, and a start without a timer (the first one, or one after a
\* stop) arms exactly one.
C35_AtMostOneTimer ==
    [][/\ timers' <= 1
       /\ (timers' = 1) <=> memoryInterval'
       /\ (last'.op = "start-memory-capture" /\ memoryInterval)
          => (timers' = timers /\ memoryInterval')
       /\ (last'.op = "stop-memory-capture" /\ ~memoryInterval)
          => /\ timers' = timers
             /\ ~memoryInterval'
             /\ memoryEntries' = memoryEntries
             /\ calls' = calls
       /\ (last'.op = "start-memory-capture" /\ ~memoryInterval)
          => (timers' = 1 /\ memoryInterval')]_vars

\* startMemoryCapture was called with the timer armed, and one timer exists.
C35_Witness ==
    /\ last.op = "start-memory-capture"
    /\ last.result = "already-running"
    /\ memoryInterval
    /\ timers = 1

\* C36: a gemini-stream event changes nothing in the history but the content
\* of the assistant message that was created for the event's stream id: no
\* message is added or removed, no user message and no assistant message of
\* another query is altered.
C36_EventWritesOwnMessage ==
    [][delivered' = delivered + 1
       => /\ Len(messages') = Len(messages)
          /\ \A i \in 1..Len(messages) :
                 messages'[i] # messages[i]
                 => /\ messages[i].role = "assistant"
                    /\ messages[i].id = events[delivered + 1].streamId
                    /\ messages'[i] =
                          [messages[i] EXCEPT !.content = events[delivered + 1].text]]_vars

\* The history holds two queries; the answer of the first is complete and an
\* event has written the answer of the second.
C36_Witness ==
    /\ Len(messages) = 4
    /\ messages[2].content # <<>>
    /\ messages[4].content # <<>>
    /\ messages[4].id = events[delivered].streamId
    /\ messages[2].id # messages[4].id

\* C37: clearMemory resets the screen memory only: the audio transcript, the
\* transcriptions and recording in progress, the capture timer, the handlers
\* with their streams and the renderer's chat are as they were; and every
\* generation call is still given the audio transcript the slot holds.
C37_ClearKeepsAudio ==
    [][/\ (last'.op = "clear-memory" /\ last.op # "clear-memory")
          => /\ currentMemory' = <<>>
             /\ UNCHANGED <<audioVars, timerVars>>
             /\ UNCHANGED <<handlers, events, delivered, activeStreamRef,
                            isLoading, messages>>
       /\ \A q \in Queries :
             (~handlers[q].bundle.made /\ handlers'[q].bundle.made)
             => handlers'[q].bundle.audioContext
                   = getAudioContext(currentAudioTranscript)]_vars

\* The first query stored its screen text, the memory was cleared, and the
\* generation call of the second query was given no memory context but the
\* audio transcript recorded before.
C37_Witness ==
    /\ Len(handlers) = 2
    /\ handlers[1].content # <<>>
    /\ handlers[2].bundle.made
    /\ handlers[2].bundle.memoryContext = <<>>
    /\ handlers[2].bundle.audioContext # <<>>
    /\ handlers[2].bundle.audioContext = getAudioContext(currentAudioTranscript)
    /\ memoryInterval

\* C38: a hidden window ignores mouse events, whatever toggleVisibility,
\* toggleMouseEvents and setClickThrough have been called; and when the window
\* is shown again its mouse setting is the stored flag ignoreMouseEvents.
C38_HiddenIgnoresMouse ==
    [][/\ ~isVisible' => windowIgnoresMouse'
       /\ (~isVisible /\ isVisible') => windowIgnoresMouse' = ignoreMouseEvents']_vars

\* C39: when no message between the renderer and the main process is in
\* flight, the window is at header height exactly when the renderer shows the
\* chat collapsed.
C39_ExpandedMatchesHeight ==
    (resizeRequests = <<>> /\ collapseEvents = 0)
    => ((windowHeight = HEADER_HEIGHT) <=> ~isExpanded)

====
